---------------------------- MODULE Spec2Model ----------------------------
(***************************************************************************)
(* State-machine model of the newsletter service (pnadon/newsletter):      *)
(* POST /subscriptions, GET /subscriptions/confirm and POST /newsletters   *)
(* running as concurrent requests over one Postgres store and one email    *)
(* transport.  Every .await of a handler is a step boundary; the code      *)
(* between two awaits is part of the step that ends at the second one.     *)
(*                                                                         *)
(* Strings are sequences of one-character strings.  A subscriber id        *)
(* (Uuid::new_v4) is the index of the draw that produced it, a             *)
(* subscription token (25 random alphanumerics) is <<k>> for the k-th      *)
(* draw: two draws never return the same value.                            *)
(***************************************************************************)
EXTENDS Integers, Sequences, FiniteSets, TLC

\* ------------------------------------------------------------- bounds

\* Number of subscribe calls that may draw a subscriber id.
MaxSubscribes == 2

\* Number of subscribe calls that may pass the validation when the calls
\* carry every shape of form.
MaxValidForms == 1

\* ---------------------------------------------------- domain: names

MaxNameGraphemes == 256

FORBIDDEN_CHARACTERS == {"/", "(", ")", "\"", "<", ">", "\\", "{", "}"}

Whitespace == {" "}

\* s.trim().is_empty()
TrimIsEmpty(s) == \A i \in 1..Len(s) : s[i] \in Whitespace

\* A message: a fixed text and the value formatted into it (<<>> when none).
Msg(text, arg) == [text |-> text, arg |-> arg]

\* Option<String>: None is <<>>, Some(m) is <<m>>.
is_valid_to_maybe_err(is_valid, error_msg) ==
  IF is_valid THEN <<>> ELSE <<Msg(error_msg, <<>>)>>

\* SubscriberName::parse stopping at the first rule the name breaks.
SubscriberName_parse_FirstOnly(s) ==
  LET errors ==
        IF TrimIsEmpty(s) THEN <<Msg("name cannot be empty!", <<>>)>>
        ELSE IF Len(s) > MaxNameGraphemes
        THEN <<Msg("name cannot be more than 256 characters!", <<>>)>>
        ELSE IF \E i \in 1..Len(s) : s[i] \in FORBIDDEN_CHARACTERS
        THEN <<Msg("name cannot contain special characters!", <<>>)>>
        ELSE <<>>
  IN [ok |-> errors = <<>>, value |-> s, errors |-> errors]

\* SubscriberName::parse wrapping s.trim() instead of s.
SubscriberName_parse_Trimmed(s) ==
  LET errors ==
        is_valid_to_maybe_err(~TrimIsEmpty(s), "name cannot be empty!")
        \o is_valid_to_maybe_err(Len(s) <= MaxNameGraphemes,
                                 "name cannot be more than 256 characters!")
        \o is_valid_to_maybe_err(~(\E i \in 1..Len(s) : s[i] \in FORBIDDEN_CHARACTERS),
                                 "name cannot contain special characters!")
      inner == {i \in 1..Len(s) : s[i] \notin Whitespace}
      trimmed == [i \in 1..Cardinality({k \in 1..Len(s) :
                        \E a, b \in inner : a <= k /\ k <= b}) |->
                    s[i - 1 + CHOOSE a \in inner : \A b \in inner : a <= b]]
  IN [ok |-> errors = <<>>, value |-> trimmed, errors |-> errors]

\* Result<SubscriberName, Vec<String>>: ok, the wrapped string, the errors.
SubscriberName_parse(s) ==
  LET errors ==
        is_valid_to_maybe_err(~TrimIsEmpty(s), "name cannot be empty!")
        \o is_valid_to_maybe_err(Len(s) <= MaxNameGraphemes,
                                 "name cannot be more than 256 characters!")
        \o is_valid_to_maybe_err(~(\E i \in 1..Len(s) : s[i] \in FORBIDDEN_CHARACTERS),
                                 "name cannot contain special characters!")
  IN [ok |-> errors = <<>>, value |-> s, errors |-> errors]

\* --------------------------------------------------- domain: emails

\* Characters the user part of an address may not hold.
EmailUserForbidden ==
  {"@", " ", "(", ")", "\"", "<", ">", "\\", ",", ";", ":", "[", "]"}

\* Characters the domain part may not hold, beyond those of the user part.
EmailDomainForbidden ==
  EmailUserForbidden \cup {"/", "{", "}", "!", "#", "+", "=", "?", "_"}

\* Position of the last "@" of s, 0 when there is none.
LastAt(s) ==
  LET at == {i \in 1..Len(s) : s[i] = "@"}
  IN IF at = {} THEN 0 ELSE CHOOSE i \in at : \A j \in at : j <= i

\* validator::validate_email: a non-empty user part and a non-empty domain
\* part around the last "@", each over its own alphabet.
validate_email(s) ==
  LET k == LastAt(s)
      user == SubSeq(s, 1, k - 1)
      domain == SubSeq(s, k + 1, Len(s))
  IN /\ k > 0
     /\ user # <<>>
     /\ domain # <<>>
     /\ \A i \in 1..Len(user) : user[i] \notin EmailUserForbidden
     /\ \A i \in 1..Len(domain) : domain[i] \notin EmailDomainForbidden
     /\ domain[1] \notin {".", "-"}
     /\ domain[Len(domain)] \notin {".", "-"}

\* Result<SubscriberEmail, String>; the error message is the format! of line 14.
SubscriberEmail_parse(s) ==
  IF validate_email(s)
  THEN [ok |-> TRUE, value |-> s, errors |-> <<>>]
  ELSE [ok |-> FALSE, value |-> s,
        errors |-> <<Msg(" is not a valid subscriber email", s)>>]

\* try_from returning at the first parse that fails, as the ? operator would.
NewSubscriber_try_from_ShortCircuit(form) ==
  LET name == SubscriberName_parse(form.name)
      email == SubscriberEmail_parse(form.email)
  IN IF ~name.ok
     THEN [ok |-> FALSE, name |-> <<>>, email |-> <<>>, errors |-> name.errors]
     ELSE IF ~email.ok
     THEN [ok |-> FALSE, name |-> <<>>, email |-> <<>>, errors |-> email.errors]
     ELSE [ok |-> TRUE, name |-> name.value, email |-> email.value, errors |-> <<>>]

\* TryFrom<SubscribeFormData> for NewSubscriber, before the join(", ").
NewSubscriber_try_from(form) ==
  LET name == SubscriberName_parse(form.name)
      email == SubscriberEmail_parse(form.email)
  IN CASE name.ok /\ email.ok ->
            [ok |-> TRUE, name |-> name.value, email |-> email.value, errors |-> <<>>]
       [] ~name.ok /\ email.ok ->
            [ok |-> FALSE, name |-> <<>>, email |-> <<>>, errors |-> name.errors]
       [] name.ok /\ ~email.ok ->
            [ok |-> FALSE, name |-> <<>>, email |-> <<>>, errors |-> email.errors]
       [] OTHER ->
            [ok |-> FALSE, name |-> <<>>, email |-> <<>>,
             errors |-> name.errors \o email.errors]

\* es.join(", "): the messages with the separator between neighbours.
RECURSIVE Join(_)
Join(es) ==
  IF Len(es) <= 1 THEN es
  ELSE <<es[1], Msg(", ", <<>>)>> \o Join(Tail(es))

\* ------------------------------------------------------- the store

\* Committed rows of table subscriptions, committed rows of table
\* subscription_tokens, rows of table users; the requests being served;
\* how many subscriber ids and how many tokens have been drawn.
\* mailed: the token rows whose confirmation link has been handed to the
\* email transport (what the transport has received, kept as a set).
VARIABLES subscriptions, subscription_tokens, users, reqs, nextId, nextTok,
          mailed

vars == <<subscriptions, subscription_tokens, users, reqs, nextId, nextTok,
          mailed>>

store == <<subscriptions, subscription_tokens, users>>

\* The request slots: two requests are served at a time.
Requests == {1, 2}

\* Option<T>: None is <<>>, Some(x) is <<x>>.
None == <<>>
Some(x) == <<x>>

\* An HTTP response: status, WWW-Authenticate header (<<>> when unset), body.
Response(status, challenge, body) ==
  [status |-> status, www_authenticate |-> challenge, body |-> body]

NoForm == [name |-> <<>>, email |-> <<>>]

\* The Authorization header of a request: whether it is there and is UTF-8,
\* its scheme prefix, whether the rest is base64 of UTF-8 bytes, and the
\* decoded text.
Header(scheme, decoded) ==
  [present |-> TRUE, utf8 |-> TRUE, scheme |-> scheme, base64 |-> TRUE,
   decoded_utf8 |-> TRUE, decoded |-> decoded]

NoHeader ==
  [present |-> FALSE, utf8 |-> TRUE, scheme |-> "", base64 |-> TRUE,
   decoded_utf8 |-> TRUE, decoded |-> <<>>]

NoCredentials == [username |-> <<>>, password |-> <<>>]

\* A stored password hash: whether the string is in PHC format, and the
\* password it is the Argon2 hash of.
PasswordHash(phc, password) == [phc |-> phc, password |-> password]

NoHash == PasswordHash(FALSE, <<>>)

\* An empty transaction: the rows it has written and not yet committed.
NoTx == [subscriptions |-> {}, subscription_tokens |-> {}]

\* A BodyData that has not been deserialized.
NoBody == [title |-> "", content |-> [html |-> "", text |-> ""]]

\* A request slot that serves nothing.  The fields are the handler's
\* arguments and locals; error is the Err the handler returned (<<>> when
\* none), before is the status the row had when confirm_subscriber updated
\* it, in_flight the indices of the subscribers whose send_email has been
\* called and has not returned.
Idle ==
  [kind |-> "none", pc |-> "idle", form |-> NoForm, new_subscriber |-> NoForm,
   transaction |-> NoTx, subscriber_id |-> None, token |-> None,
   header |-> NoHeader, json |-> <<>>, body |-> NoBody,
   credentials |-> NoCredentials, user_id |-> None,
   expected_password_hash |-> NoHash, subscribers |-> <<>>, next |-> 0,
   in_flight |-> {}, sent |-> <<>>, before |-> {}, error |-> None, resp |-> None]

\* No handler has returned a response that is still to be written.  A step
\* of another request neither reads nor changes an answered slot, so writing
\* the response first loses no interleaving of the handlers' steps.
Quiet == \A q \in Requests : reqs[q].pc # "done"

\* The slot is free: it serves nothing.
Free(r) == Quiet /\ reqs[r].pc = "idle"

\* The handler of slot r is at the await named pc.
At(r, kind, pc) == Quiet /\ reqs[r].kind = kind /\ reqs[r].pc = pc

\* The handler of slot r returns: Ok(resp), or Err(error) turned into resp.
\* Whatever the transaction had written and not committed is rolled back.
Finish(r, error, resp) ==
  reqs' = [reqs EXCEPT ![r].pc = "done", ![r].error = error,
                       ![r].resp = Some(resp), ![r].transaction = NoTx]

\* Err(e): the variant of the error enum and the messages of its Display.
Err(variant, display) == Some([variant |-> variant, display |-> display])

\* An UnexpectedError wrapping an anyhow error with this outermost context.
Unexpected(context) == Err("UnexpectedError", <<Msg(context, <<>>)>>)

\* HttpResponse::Ok().finish()
Ok200 == Response(200, None, <<>>)

\* One message handed to the email transport and what the transport answered.
Mail(to, subject, html_body, text_body, ok) ==
  [to |-> to, subject |-> subject, html_body |-> html_body,
   text_body |-> text_body, ok |-> ok]

\* A body of a mail: its fixed text and the link formatted into it.
Content(text, link) == [text |-> text, link |-> link]

\* ----------------------------------------------- POST /subscriptions

ApplicationBaseUrl == "http://127.0.0.1"

\* The forms a client submits: a valid one and one whose name and email are
\* both invalid.
Forms ==
  { [name |-> <<"p", " ", "n">>, email |-> <<"p", "@", "n">>],
    [name |-> <<>>, email |-> <<"n">>] }

\* Subscribe calls that have been accepted and have not drawn their id yet.
AwaitingId ==
  {q \in Requests : reqs[q].kind = "subscribe"
                     /\ reqs[q].pc \in {"begin", "insert_subscriber"}}

\* ResponseError for SubscribeError without status_code: the default, 500.
SubscribeErrorResponse_Internal(error) == Response(500, None, error[1].display)

\* ResponseError for SubscribeError: the status of the variant, and the
\* default error_response, whose body is the error's Display.
SubscribeErrorResponse(error) ==
  Response(IF error[1].variant = "ValidationError" THEN 400 ELSE 500,
           None, error[1].display)

\* subscribe, up to pool.begin(): the form is parsed.
StartSubscribe(r, form) ==
  LET parsed == NewSubscriber_try_from(form) IN
  /\ Free(r)
  /\ IF parsed.ok
     THEN /\ nextId + Cardinality(AwaitingId) < MaxSubscribes
          /\ reqs' = [reqs EXCEPT ![r] =
                [Idle EXCEPT !.kind = "subscribe", !.pc = "begin", !.form = form,
                             !.new_subscriber =
                               [name |-> parsed.name, email |-> parsed.email]]]
     ELSE reqs' = [reqs EXCEPT ![r] =
                [Idle EXCEPT !.kind = "subscribe", !.pc = "done", !.form = form,
                             !.error = Err("ValidationError", Join(parsed.errors)),
                             !.resp = Some(SubscribeErrorResponse(
                                        Err("ValidationError", Join(parsed.errors))))]]
  /\ UNCHANGED <<store, nextId, nextTok, mailed>>

\* subscribe returns Err(UnexpectedError) with this context.
SubscribeFails(r, context) ==
  Finish(r, Unexpected(context), SubscribeErrorResponse(Unexpected(context)))

\* pool.begin()
SubscribeBegin(r) ==
  /\ At(r, "subscribe", "begin")
  /\ \E ok \in BOOLEAN :
       IF ok
       THEN reqs' = [reqs EXCEPT ![r].pc = "insert_subscriber"]
       ELSE SubscribeFails(r, "Failed to acquire a Postgres connection from the pool")
  /\ UNCHANGED <<store, nextId, nextTok, mailed>>

\* insert_subscriber writing 'confirmed' where the code writes
\* 'pending_confirmation'.
NewRow_Confirmed(id, new_subscriber) ==
  [id |-> id, email |-> new_subscriber.email, name |-> new_subscriber.name,
   status |-> "confirmed"]

\* The row insert_subscriber writes.
NewRow(id, new_subscriber) ==
  [id |-> id, email |-> new_subscriber.email, name |-> new_subscriber.name,
   status |-> "pending_confirmation"]

\* The transaction after the INSERT INTO subscriptions executed in it.
TxInsertSubscriber(tx, row) ==
  [tx EXCEPT !.subscriptions = @ \cup {row}]

\* subscribe generating the token before it awaits insert_subscriber.
insert_subscriber_TokenFirst(r) ==
  LET subscriber_id == nextId + 1 IN
  /\ At(r, "subscribe", "insert_subscriber")
  /\ nextId' = subscriber_id
  /\ nextTok' = nextTok + 1
  /\ \E ok \in BOOLEAN :
       IF ok
       THEN reqs' = [reqs EXCEPT
              ![r].pc = "store_token",
              ![r].subscriber_id = Some(subscriber_id),
              ![r].token = Some(<<nextTok + 1>>),
              ![r].transaction = TxInsertSubscriber(@,
                 NewRow(subscriber_id, reqs[r].new_subscriber))]
       ELSE reqs' = [reqs EXCEPT
              ![r].pc = "done", ![r].token = Some(<<nextTok + 1>>),
              ![r].error = Unexpected("Failed to insert new subscriber in the database."),
              ![r].resp = Some(SubscribeErrorResponse(
                 Unexpected("Failed to insert new subscriber in the database.")))]
  /\ UNCHANGED <<store, mailed>>

\* insert_subscriber: a fresh id, and the INSERT inside the transaction.
insert_subscriber(r) ==
  LET subscriber_id == nextId + 1 IN
  /\ At(r, "subscribe", "insert_subscriber")
  /\ nextId' = subscriber_id
  /\ \E ok \in BOOLEAN :
       IF ok
       THEN reqs' = [reqs EXCEPT
              ![r].pc = "store_token",
              ![r].subscriber_id = Some(subscriber_id),
              ![r].transaction = TxInsertSubscriber(@,
                 NewRow(subscriber_id, reqs[r].new_subscriber))]
       ELSE SubscribeFails(r, "Failed to insert new subscriber in the database.")
  /\ UNCHANGED <<store, nextTok, mailed>>

\* The row store_token writes.
TokenRow(subscription_token, subscriber_id) ==
  [subscription_token |-> subscription_token, subscriber_id |-> subscriber_id]

\* store_token whose INSERT never reaches the transaction.
TxStoreToken_Lost(tx, row) == tx

\* The transaction after the INSERT INTO subscription_tokens executed in it.
TxStoreToken(tx, row) ==
  [tx EXCEPT !.subscription_tokens = @ \cup {row}]

\* store_token with a token every call shares instead of a generated one.
store_token_SharedToken(r) ==
  /\ At(r, "subscribe", "store_token")
  /\ nextTok' = nextTok + 1
  /\ \E ok \in BOOLEAN :
       IF ok
       THEN reqs' = [reqs EXCEPT
              ![r].pc = "commit",
              ![r].token = Some(<<1>>),
              ![r].transaction = TxStoreToken(@,
                 TokenRow(<<1>>, reqs[r].subscriber_id[1]))]
       ELSE SubscribeFails(r, "Failed to store the confirmation token for a new subscriber.")
  /\ UNCHANGED <<store, nextId, mailed>>

\* generate_subcription_token and store_token: a fresh token, and the INSERT
\* inside the transaction.
store_token(r) ==
  LET token == <<nextTok + 1>> IN
  /\ At(r, "subscribe", "store_token")
  /\ nextTok' = nextTok + 1
  /\ \E ok \in BOOLEAN :
       IF ok
       THEN reqs' = [reqs EXCEPT
              ![r].pc = "commit",
              ![r].token = Some(token),
              ![r].transaction = TxStoreToken(@,
                 TokenRow(token, reqs[r].subscriber_id[1]))]
       ELSE SubscribeFails(r, "Failed to store the confirmation token for a new subscriber.")
  /\ UNCHANGED <<store, nextId, mailed>>

\* A failed commit that leaves the subscriber row of the transaction visible.
CommitFailed_Partial(r) ==
  /\ SubscribeFails(r, "Failed to commit SQL transaction to store a new subscriber.")
  /\ subscriptions' = subscriptions \cup reqs[r].transaction.subscriptions
  /\ UNCHANGED subscription_tokens

\* subscribe going on to the email although transaction.commit() failed.
CommitFailed_Ignored(r) ==
  /\ reqs' = [reqs EXCEPT ![r].pc = "send_confirmation_email",
                          ![r].transaction = NoTx]
  /\ UNCHANGED <<subscriptions, subscription_tokens>>

\* transaction.commit() failed: the ? returns the error and the transaction
\* is dropped, so none of its rows becomes visible.
CommitFailed(r) ==
  /\ SubscribeFails(r, "Failed to commit SQL transaction to store a new subscriber.")
  /\ UNCHANGED <<subscriptions, subscription_tokens>>

\* transaction.commit(): all the rows of the transaction become visible at
\* once, or none does.
SubscribeCommit(r) ==
  /\ At(r, "subscribe", "commit")
  /\ \E ok \in BOOLEAN :
       IF ok
       THEN /\ subscriptions' = subscriptions \cup reqs[r].transaction.subscriptions
            /\ subscription_tokens' =
                 subscription_tokens \cup reqs[r].transaction.subscription_tokens
            /\ reqs' = [reqs EXCEPT ![r].pc = "send_confirmation_email",
                                    ![r].transaction = NoTx]
       ELSE CommitFailed(r)
  /\ UNCHANGED <<users, nextId, nextTok, mailed>>

\* The link send_confirmation_email formats.
ConfirmationLink(base_url, subscription_token) ==
  [base_url |-> base_url, path |-> "/subscriptions/confirm?subscription_token=",
   subscription_token |-> subscription_token]

\* send_confirmation_email formatting the link into the HTML body only: the
\* plain-text body sends the reader to the confirm page without a token.
ConfirmationMail_TextWithoutToken(new_subscriber, base_url, subscription_token, ok) ==
  Mail(new_subscriber.email,
       Msg("Welcome {}!", new_subscriber.name),
       Content("Welcome to our newsletter!<br />Click <a href=\"{}\">here</a> to confirm your subscription.",
               Some(ConfirmationLink(base_url, subscription_token))),
       Content("Welcome to our newsletter!\nVisit {} to confirm your subscription.",
               Some(ConfirmationLink(base_url, <<>>))),
       ok)

\* The mail send_confirmation_email hands to the transport.
ConfirmationMail(new_subscriber, base_url, subscription_token, ok) ==
  LET confirmation_link == ConfirmationLink(base_url, subscription_token) IN
  Mail(new_subscriber.email,
       Msg("Welcome {}!", new_subscriber.name),
       Content("Welcome to our newsletter!<br />Click <a href=\"{}\">here</a> to confirm your subscription.",
               Some(confirmation_link)),
       Content("Welcome to our newsletter!\nVisit {} to confirm your subscription.",
               Some(confirmation_link)),
       ok)

\* subscribe undoing its two rows when the email could not be sent.
send_confirmation_email_Undo(r) ==
  /\ At(r, "subscribe", "send_confirmation_email")
  /\ \E ok \in BOOLEAN :
       LET mail == ConfirmationMail(reqs[r].new_subscriber, ApplicationBaseUrl,
                                    reqs[r].token[1], ok)
           error == IF ok THEN None
                    ELSE Unexpected("Failed to send a confirmation email.")
           resp == IF ok THEN Ok200 ELSE SubscribeErrorResponse(error)
       IN /\ reqs' = [reqs EXCEPT ![r].pc = "done", ![r].error = error,
                                  ![r].resp = Some(resp),
                                  ![r].sent = Append(@, mail)]
          /\ subscriptions' =
               IF ok THEN subscriptions
               ELSE {row \in subscriptions : row.id # reqs[r].subscriber_id[1]}
          /\ subscription_tokens' =
               IF ok THEN subscription_tokens
               ELSE {t \in subscription_tokens :
                       t.subscriber_id # reqs[r].subscriber_id[1]}
  /\ mailed' = mailed \cup {TokenRow(reqs[r].token[1], reqs[r].subscriber_id[1])}
  /\ UNCHANGED <<users, nextId, nextTok>>

\* send_confirmation_email, and the response of subscribe.
send_confirmation_email(r) ==
  /\ At(r, "subscribe", "send_confirmation_email")
  /\ \E ok \in BOOLEAN :
       LET mail == ConfirmationMail(reqs[r].new_subscriber, ApplicationBaseUrl,
                                    reqs[r].token[1], ok)
           error == IF ok THEN None
                    ELSE Unexpected("Failed to send a confirmation email.")
           resp == IF ok THEN Ok200 ELSE SubscribeErrorResponse(error)
       IN reqs' = [reqs EXCEPT ![r].pc = "done", ![r].error = error,
                               ![r].resp = Some(resp),
                               ![r].sent = Append(@, mail)]
  /\ mailed' = mailed \cup {TokenRow(reqs[r].token[1], reqs[r].subscriber_id[1])}
  /\ UNCHANGED <<store, nextId, nextTok>>

\* ---------------------------------------- GET /subscriptions/confirm

\* The tokens a client may present: those drawn so far or later, and the
\* token of a row the store held before the service started.
Tokens == {<<k>> : k \in 0..MaxSubscribes}

\* confirm, up to the first query.
StartConfirm(r, subscription_token) ==
  /\ Free(r)
  /\ reqs' = [reqs EXCEPT ![r] =
        [Idle EXCEPT !.kind = "confirm", !.pc = "get_subscriber_id_from_token",
                     !.token = Some(subscription_token)]]
  /\ UNCHANGED <<store, nextId, nextTok, mailed>>

\* HttpResponse::Unauthorized().finish()
Unauthorized == Response(401, None, <<>>)

\* HttpResponse::InternalServerError().finish()
InternalServerError == Response(500, None, <<>>)

\* The SELECT of get_subscriber_id_from_token without its WHERE clause.
SelectByToken_All(rows, subscription_token) == rows

\* SELECT subscriber_id FROM subscription_tokens WHERE subscription_token = $1
SelectByToken(rows, subscription_token) ==
  {row \in rows : row.subscription_token = subscription_token}

\* confirm answering a failed lookup with the message of its error.
get_subscriber_id_from_token_Verbose(r) ==
  LET found == SelectByToken(subscription_tokens, reqs[r].token[1])
      error == Err("sqlx::Error", <<Msg("failed to execute query", <<>>)>>)
  IN
  /\ At(r, "confirm", "get_subscriber_id_from_token")
  /\ \E ok \in BOOLEAN :
       IF ~ok THEN Finish(r, error, Response(500, None, error[1].display))
       ELSE IF found = {} THEN Finish(r, None, Unauthorized)
       ELSE \E row \in found :
              reqs' = [reqs EXCEPT ![r].pc = "confirm_subscriber",
                                   ![r].subscriber_id = Some(row.subscriber_id)]
  /\ UNCHANGED <<store, nextId, nextTok, mailed>>

\* get_subscriber_id_from_token and the match on its result.
get_subscriber_id_from_token(r) ==
  LET found == SelectByToken(subscription_tokens, reqs[r].token[1]) IN
  /\ At(r, "confirm", "get_subscriber_id_from_token")
  /\ \E ok \in BOOLEAN :
       IF ~ok THEN Finish(r, Err("sqlx::Error", <<Msg("failed to execute query", <<>>)>>),
                         InternalServerError)
       ELSE IF found = {} THEN Finish(r, None, Unauthorized)
       ELSE \E row \in found :
              reqs' = [reqs EXCEPT ![r].pc = "confirm_subscriber",
                                   ![r].subscriber_id = Some(row.subscriber_id)]
  /\ UNCHANGED <<store, nextId, nextTok, mailed>>

\* confirm_subscriber whose UPDATE writes a status the rest of the code does
\* not know.
MarkConfirmed_Active(rows, subscriber_id) ==
  {IF row.id = subscriber_id THEN [row EXCEPT !.status = "active"] ELSE row :
     row \in rows}

\* confirm_subscriber whose UPDATE matches no row.
MarkConfirmed_Noop(rows, subscriber_id) == rows

\* confirm_subscriber whose UPDATE flips the status instead of setting it.
MarkConfirmed_Toggle(rows, subscriber_id) ==
  {IF row.id = subscriber_id
   THEN [row EXCEPT !.status = IF @ = "confirmed" THEN "pending_confirmation"
                                ELSE "confirmed"]
   ELSE row : row \in rows}

\* confirm_subscriber whose UPDATE has no WHERE clause.
MarkConfirmed_All(rows, subscriber_id) ==
  {[row EXCEPT !.status = "confirmed"] : row \in rows}

\* confirm_subscriber also deleting the other rows that hold the email of
\* the row it confirms.
MarkConfirmed_DropOthers(rows, subscriber_id) ==
  LET emails == {row.email : row \in {x \in rows : x.id = subscriber_id}} IN
  {IF row.id = subscriber_id THEN [row EXCEPT !.status = "confirmed"] ELSE row :
     row \in {x \in rows : x.id = subscriber_id \/ x.email \notin emails}}

\* UPDATE subscriptions SET status = 'confirmed' WHERE id = $1
MarkConfirmed(rows, subscriber_id) ==
  {IF row.id = subscriber_id THEN [row EXCEPT !.status = "confirmed"] ELSE row :
     row \in rows}

\* confirm_subscriber deleting the token it has used.
confirm_subscriber_ConsumesToken(r) ==
  LET subscriber_id == reqs[r].subscriber_id[1]
      before == {row.status : row \in {x \in subscriptions : x.id = subscriber_id}}
  IN
  /\ At(r, "confirm", "confirm_subscriber")
  /\ \E ok \in BOOLEAN :
       IF ok
       THEN /\ subscriptions' = MarkConfirmed(subscriptions, subscriber_id)
            /\ subscription_tokens' =
                 {t \in subscription_tokens : t.subscription_token # reqs[r].token[1]}
            /\ reqs' = [reqs EXCEPT ![r].pc = "done", ![r].before = before,
                                    ![r].resp = Some(Ok200)]
       ELSE /\ Finish(r, Err("sqlx::Error", <<Msg("Failed to execute query", <<>>)>>),
                      InternalServerError)
            /\ UNCHANGED <<subscriptions, subscription_tokens>>
  /\ UNCHANGED <<users, nextId, nextTok, mailed>>

\* confirm_subscriber and the match on its result.
confirm_subscriber(r) ==
  LET subscriber_id == reqs[r].subscriber_id[1]
      before == {row.status : row \in {x \in subscriptions : x.id = subscriber_id}}
  IN
  /\ At(r, "confirm", "confirm_subscriber")
  /\ \E ok \in BOOLEAN :
       IF ok
       THEN /\ subscriptions' = MarkConfirmed(subscriptions, subscriber_id)
            /\ reqs' = [reqs EXCEPT ![r].pc = "done", ![r].before = before,
                                    ![r].resp = Some(Ok200)]
       ELSE /\ Finish(r, Err("sqlx::Error", <<Msg("Failed to execute query", <<>>)>>),
                      InternalServerError)
            /\ UNCHANGED subscriptions
  /\ UNCHANGED <<subscription_tokens, users, nextId, nextTok, mailed>>

\* -------------------------------------------------- POST /newsletters

\* The Authorization headers a client sends: none, the publisher with the
\* right and with a wrong password, a username no row holds (with a wrong
\* password and with the password of the fallback hash), and the user whose
\* stored hash is not a PHC string.
Headers ==
  { NoHeader,
    Header("Basic ", <<"a", ":", "p">>),
    Header("Basic ", <<"a", ":", "q">>),
    Header("Basic ", <<"g", ":", "q">>),
    Header("Basic ", <<"g", ":", "d">>),
    Header("Basic ", <<"x", ":", "p">>) }

\* The BodyData of an issue.
BodyData ==
  [title |-> "Newsletter title",
   content |-> [html |-> "<p>Newsletter body as HTML</p>",
                text |-> "Newsletter body as plain text"]]

\* A JSON object of a request body: each member is there (<<v>>) or is
\* missing (<<>>); content is itself an object with members html and text.
Json(title, html, text) ==
  [title |-> title,
   content |-> IF html = None /\ text = None THEN None
               ELSE Some([html |-> html, text |-> text])]

\* The JSON of the issue, as a client that knows the API sends it.
WellFormedJson ==
  Json(Some(BodyData.title), Some(BodyData.content.html), Some(BodyData.content.text))

\* The JSON bodies a client sends: the issue, the issue without title,
\* a title without content, a content without text, and the issue with the
\* empty string as its title.
Bodies ==
  { WellFormedJson,
    Json(None, Some(BodyData.content.html), Some(BodyData.content.text)),
    Json(Some("Newsletter!"), None, None),
    Json(Some(BodyData.title), Some(BodyData.content.html), None),
    Json(Some(""), Some(BodyData.content.html), Some(BodyData.content.text)) }

\* Deserialize for BodyData with every member defaulting to the empty
\* string when it is missing.
BodyData_deserialize_Default(json) ==
  LET content == IF json.content = None THEN [html |-> None, text |-> None]
                 ELSE json.content[1]
      or_empty(member) == IF member = None THEN "" ELSE member[1]
  IN [ok |-> TRUE,
      value |-> [title |-> or_empty(json.title),
                 content |-> [html |-> or_empty(content.html),
                              text |-> or_empty(content.text)]],
      error |-> None]

\* web::Json<BodyData>: the derived Deserialize of BodyData and of Content.
\* Every member is required and a String member takes any string; the
\* error names the first member, in the order of the struct, that is missing.
BodyData_deserialize(json) ==
  LET missing(field) ==
        [ok |-> FALSE, value |-> NoBody,
         error |-> Err("JsonPayloadError", <<Msg("missing field {}", <<field>>)>>)]
  IN CASE json.title = None -> missing("title")
       [] json.content = None -> missing("content")
       [] json.content[1].html = None -> missing("html")
       [] json.content[1].text = None -> missing("text")
       [] OTHER ->
            [ok |-> TRUE,
             value |-> [title |-> json.title[1],
                        content |-> [html |-> json.content[1].html[1],
                                     text |-> json.content[1].text[1]]],
             error |-> None]

\* The response to a request whose body web::Json could not extract.
BadRequest(error) == Response(400, None, error[1].display)

\* Position of the first ":" of s, 0 when there is none.
FirstColon(s) ==
  LET at == {i \in 1..Len(s) : s[i] = ":"}
  IN IF at = {} THEN 0 ELSE CHOOSE i \in at : \A j \in at : i <= j

\* basic_authentication taking a missing ":" as an empty password.
basic_authentication_NoPassword(header) ==
  LET k == FirstColon(header.decoded)
      n == IF k = 0 THEN Len(header.decoded) + 1 ELSE k
      failed(context) == [ok |-> FALSE, credentials |-> NoCredentials,
                          error |-> Err("AuthError", <<Msg(context, <<>>)>>)]
  IN CASE ~header.present -> failed("'Authorization' header is missing")
       [] ~header.utf8 ->
            failed("'Authorization' header is not a valid UTF8 encoded string.")
       [] header.scheme # "Basic " -> failed("Authorization scheme is not Basic.")
       [] ~header.base64 -> failed("Failed to decode Credentials using base64.")
       [] ~header.decoded_utf8 ->
            failed("Decoded credential data is not a valid UTF8 encoded string.")
       [] OTHER ->
            [ok |-> TRUE,
             credentials |-> [username |-> SubSeq(header.decoded, 1, n - 1),
                              password |-> SubSeq(header.decoded, n + 1,
                                                  Len(header.decoded))],
             error |-> None]

\* basic_authentication splitting at the last ":", as rsplitn(2, ':') would.
basic_authentication_LastColon(header) ==
  LET at == {i \in 1..Len(header.decoded) : header.decoded[i] = ":"}
      k == IF at = {} THEN 0 ELSE CHOOSE i \in at : \A j \in at : j <= i
      failed(context) == [ok |-> FALSE, credentials |-> NoCredentials,
                          error |-> Err("AuthError", <<Msg(context, <<>>)>>)]
  IN CASE ~header.present -> failed("'Authorization' header is missing")
       [] ~header.utf8 ->
            failed("'Authorization' header is not a valid UTF8 encoded string.")
       [] header.scheme # "Basic " -> failed("Authorization scheme is not Basic.")
       [] ~header.base64 -> failed("Failed to decode Credentials using base64.")
       [] ~header.decoded_utf8 ->
            failed("Decoded credential data is not a valid UTF8 encoded string.")
       [] k = 0 -> failed("A password must be provided in 'Basic' auth.")
       [] OTHER ->
            [ok |-> TRUE,
             credentials |-> [username |-> SubSeq(header.decoded, 1, k - 1),
                              password |-> SubSeq(header.decoded, k + 1,
                                                  Len(header.decoded))],
             error |-> None]

\* basic_authentication: Result<Credentials, anyhow::Error>.
basic_authentication(header) ==
  LET k == FirstColon(header.decoded)
      failed(context) == [ok |-> FALSE, credentials |-> NoCredentials,
                          error |-> Err("AuthError", <<Msg(context, <<>>)>>)]
  IN CASE ~header.present -> failed("'Authorization' header is missing")
       [] ~header.utf8 ->
            failed("'Authorization' header is not a valid UTF8 encoded string.")
       [] header.scheme # "Basic " -> failed("Authorization scheme is not Basic.")
       [] ~header.base64 -> failed("Failed to decode Credentials using base64.")
       [] ~header.decoded_utf8 ->
            failed("Decoded credential data is not a valid UTF8 encoded string.")
       [] k = 0 -> failed("A password must be provided in 'Basic' auth.")
       [] OTHER ->
            [ok |-> TRUE,
             credentials |-> [username |-> SubSeq(header.decoded, 1, k - 1),
                              password |-> SubSeq(header.decoded, k + 1,
                                                  Len(header.decoded))],
             error |-> None]

\* ResponseError for PublishError: status_code and error_response.
PublishErrorResponse(error) ==
  IF error[1].variant = "AuthError"
  THEN Response(401, Some("Basic realm=\"publish\""), <<>>)
  ELSE Response(500, None, <<>>)

\* publish_newsletter returns Err(error).
PublishFails(r, error) == Finish(r, error, PublishErrorResponse(error))

\* The extraction of the arguments of publish_newsletter, and
\* publish_newsletter up to the first query.  A body that does not
\* deserialize is answered before the handler is called.
StartPublish(r, header, json) ==
  LET body == BodyData_deserialize(json)
      parsed == basic_authentication(header)
  IN
  /\ Free(r)
  /\ IF ~body.ok
     THEN reqs' = [reqs EXCEPT ![r] =
            [Idle EXCEPT !.kind = "publish", !.pc = "done", !.header = header,
                         !.json = Some(json), !.error = body.error,
                         !.resp = Some(BadRequest(body.error))]]
     ELSE IF parsed.ok
     THEN reqs' = [reqs EXCEPT ![r] =
            [Idle EXCEPT !.kind = "publish", !.pc = "get_stored_credentials",
                         !.header = header, !.json = Some(json),
                         !.body = body.value,
                         !.credentials = parsed.credentials]]
     ELSE reqs' = [reqs EXCEPT ![r] =
            [Idle EXCEPT !.kind = "publish", !.pc = "done", !.header = header,
                         !.json = Some(json), !.body = body.value,
                         !.error = parsed.error,
                         !.resp = Some(PublishErrorResponse(parsed.error))]]
  /\ UNCHANGED <<store, nextId, nextTok, mailed>>

\* The hash verified when no row holds the username.
FallbackHash == PasswordHash(TRUE, <<"d">>)

\* SELECT user_id, password_hash FROM users WHERE username = $1
SelectByUsername(rows, username) == {row \in rows : row.username = username}

\* validate_credentials returning at once when no row holds the username.
get_stored_credentials_EarlyExit(r) ==
  LET found == SelectByUsername(users, reqs[r].credentials.username) IN
  /\ At(r, "publish", "get_stored_credentials")
  /\ \E ok \in BOOLEAN :
       IF ~ok
       THEN PublishFails(r, Unexpected(
              "Failed to perform a query to validate auth credentials."))
       ELSE IF found = {}
       THEN PublishFails(r, Err("AuthError", <<Msg("Unknown username.", <<>>)>>))
       ELSE \E row \in found :
              reqs' = [reqs EXCEPT ![r].pc = "verify_password_hash",
                                   ![r].user_id = Some(row.user_id),
                                   ![r].expected_password_hash = row.password_hash]
  /\ UNCHANGED <<store, nextId, nextTok, mailed>>

\* validate_credentials reporting a failed query as an authentication
\* failure.
get_stored_credentials_FailureIsAuth(r) ==
  LET found == SelectByUsername(users, reqs[r].credentials.username) IN
  /\ At(r, "publish", "get_stored_credentials")
  /\ \E ok \in BOOLEAN :
       IF ~ok
       THEN PublishFails(r, Err("AuthError", <<Msg(
              "Failed to perform a query to validate auth credentials.", <<>>)>>))
       ELSE IF found = {}
       THEN reqs' = [reqs EXCEPT ![r].pc = "verify_password_hash",
                                 ![r].user_id = None,
                                 ![r].expected_password_hash = FallbackHash]
       ELSE \E row \in found :
              reqs' = [reqs EXCEPT ![r].pc = "verify_password_hash",
                                   ![r].user_id = Some(row.user_id),
                                   ![r].expected_password_hash = row.password_hash]
  /\ UNCHANGED <<store, nextId, nextTok, mailed>>

\* get_stored_credentials, and the fallback of validate_credentials.
get_stored_credentials(r) ==
  LET found == SelectByUsername(users, reqs[r].credentials.username) IN
  /\ At(r, "publish", "get_stored_credentials")
  /\ \E ok \in BOOLEAN :
       IF ~ok
       THEN PublishFails(r, Unexpected(
              "Failed to perform a query to validate auth credentials."))
       ELSE IF found = {}
       THEN reqs' = [reqs EXCEPT ![r].pc = "verify_password_hash",
                                 ![r].user_id = None,
                                 ![r].expected_password_hash = FallbackHash]
       ELSE \E row \in found :
              reqs' = [reqs EXCEPT ![r].pc = "verify_password_hash",
                                   ![r].user_id = Some(row.user_id),
                                   ![r].expected_password_hash = row.password_hash]
  /\ UNCHANGED <<store, nextId, nextTok, mailed>>

\* verify_password_hash taking any password for a hash in PHC format.
verify_password_hash_AnyPassword(expected_password_hash, password_candidate) ==
  IF ~expected_password_hash.phc
  THEN Unexpected("Failed to parse hash in PHC string format.")
  ELSE None

\* verify_password_hash reporting a hash it cannot parse as a password that
\* does not match.
verify_password_hash_BadHashIsAuth(expected_password_hash, password_candidate) ==
  IF expected_password_hash.phc /\ expected_password_hash.password = password_candidate
  THEN None
  ELSE Err("AuthError", <<Msg("Invalid password.", <<>>)>>)

\* verify_password_hash: Ok(()) is <<>>, Err(e) is the error.
verify_password_hash(expected_password_hash, password_candidate) ==
  IF ~expected_password_hash.phc
  THEN Unexpected("Failed to parse hash in PHC string format.")
  ELSE IF expected_password_hash.password = password_candidate THEN None
  ELSE Err("AuthError", <<Msg("Invalid password.", <<>>)>>)

\* validate_credentials turning a missing user into a plain anyhow error,
\* which PublishError takes as UnexpectedError.
validate_credentials_NoUser(joined, user_id, expected_password_hash, password) ==
  LET verified == verify_password_hash(expected_password_hash, password) IN
  IF ~joined THEN Unexpected("Failed to spawn blocking task.")
  ELSE IF verified # None THEN verified
  ELSE IF user_id = None THEN Unexpected("Unknown username.")
  ELSE None

\* validate_credentials returning Ok once the hash is verified, without the
\* test of user_id.
validate_credentials_AnyUser(joined, user_id, expected_password_hash, password) ==
  LET verified == verify_password_hash(expected_password_hash, password) IN
  IF ~joined THEN Unexpected("Failed to spawn blocking task.")
  ELSE verified

\* What validate_credentials returns once the blocking task has been awaited:
\* Ok(user_id) is <<>>, Err(e) is the error.
validate_credentials(joined, user_id, expected_password_hash, password) ==
  LET verified == verify_password_hash(expected_password_hash, password) IN
  IF ~joined THEN Unexpected("Failed to spawn blocking task.")
  ELSE IF verified # None THEN verified
  ELSE IF user_id = None THEN Err("AuthError", <<Msg("Unknown username.", <<>>)>>)
  ELSE None

\* The blocking task of validate_credentials, awaited, and the decision.
PublishVerify(r) ==
  /\ At(r, "publish", "verify_password_hash")
  /\ \E joined \in BOOLEAN :
       LET error == validate_credentials(joined, reqs[r].user_id,
                      reqs[r].expected_password_hash,
                      reqs[r].credentials.password)
       IN IF error = None
          THEN reqs' = [reqs EXCEPT ![r].pc = "get_confirmed_subscribers"]
          ELSE PublishFails(r, error)
  /\ UNCHANGED <<store, nextId, nextTok, mailed>>

\* The orders in which a query without ORDER BY may return the rows of S.
Orders(S) ==
  {f \in [1..Cardinality(S) -> S] : \A i, j \in DOMAIN f : i # j => f[i] # f[j]}

\* SELECT email FROM subscriptions WHERE status = 'confirmed'
SelectConfirmed(rows) == {row \in rows : row.status = "confirmed"}

\* The loop taking every subscriber of the list, parsed or not.
NextValid_NoSkip(subscribers, i) == i

\* The index of the first subscriber at or after i that parsed, or one past
\* the end: the loop skips the others with a warning.
RECURSIVE NextValid(_, _)
NextValid(subscribers, i) ==
  IF i > Len(subscribers) \/ subscribers[i].ok THEN i
  ELSE NextValid(subscribers, i + 1)

\* publish_newsletter calling send_email for every subscriber that is left
\* before it awaits the first of the calls.
LoopAt_AllAtOnce(r, subscribers, i, sent) ==
  IF i > Len(subscribers)
  THEN reqs' = [reqs EXCEPT ![r].pc = "done", ![r].subscribers = subscribers,
                            ![r].next = i, ![r].sent = sent,
                            ![r].in_flight = {}, ![r].resp = Some(Ok200)]
  ELSE reqs' = [reqs EXCEPT ![r].pc = "send_email", ![r].subscribers = subscribers,
                            ![r].next = i, ![r].sent = sent,
                            ![r].in_flight =
                              {j \in i..Len(subscribers) : subscribers[j].ok}]

\* The loop of publish_newsletter has moved to index i: send_email is called
\* for subscriber i and awaited, or the loop is over and the answer is OK.
LoopAt(r, subscribers, i, sent) ==
  IF i > Len(subscribers)
  THEN reqs' = [reqs EXCEPT ![r].pc = "done", ![r].subscribers = subscribers,
                            ![r].next = i, ![r].sent = sent,
                            ![r].in_flight = {}, ![r].resp = Some(Ok200)]
  ELSE reqs' = [reqs EXCEPT ![r].pc = "send_email", ![r].subscribers = subscribers,
                            ![r].next = i, ![r].sent = sent,
                            ![r].in_flight = {i}]

\* get_confirmed_subscribers, and the loop up to its first send.
get_confirmed_subscribers(r) ==
  /\ At(r, "publish", "get_confirmed_subscribers")
  /\ \E ok \in BOOLEAN :
       IF ~ok
       THEN PublishFails(r, Unexpected("error returned from database"))
       ELSE \E rows \in Orders(SelectConfirmed(subscriptions)) :
              LET subscribers == [i \in DOMAIN rows |->
                                   SubscriberEmail_parse(rows[i].email)]
              IN LoopAt(r, subscribers, NextValid(subscribers, 1), <<>>)
  /\ UNCHANGED <<store, nextId, nextTok, mailed>>

\* The mail publish_newsletter hands to the transport for one subscriber.
NewsletterMail(email, body, ok) ==
  Mail(email, Msg(body.title, <<>>), Content(body.content.html, None),
       Content(body.content.text, None), ok)

\* publish_newsletter calling send_email again for a subscriber whose send
\* returned Err, and giving up when the second send fails too.
SendFailed_Retry(r, subscriber, sent) ==
  LET error == Err("UnexpectedError",
                   <<Msg("Failed to send newsletter issue to {}", subscriber.value)>>)
  IN IF Len(sent) = 1 \/ sent[Len(sent) - 1].ok
     THEN reqs' = [reqs EXCEPT ![r].sent = sent]
     ELSE reqs' = [reqs EXCEPT ![r].pc = "done", ![r].sent = sent,
                               ![r].error = error, ![r].in_flight = {},
                               ![r].resp = Some(PublishErrorResponse(error))]

\* A send of the loop returned Err: with_context(..)? returns it from
\* publish_newsletter.
SendFailed(r, subscriber, sent) ==
  LET error == Err("UnexpectedError",
                   <<Msg("Failed to send newsletter issue to {}", subscriber.value)>>)
  IN reqs' = [reqs EXCEPT ![r].pc = "done", ![r].sent = sent, ![r].error = error,
                          ![r].in_flight = {},
                          ![r].resp = Some(PublishErrorResponse(error))]

\* publish_newsletter querying the confirmed subscribers again after every
\* send and going on with the list it gets.
PublishSend_Requery(r) ==
  LET subscriber == reqs[r].subscribers[reqs[r].next] IN
  /\ At(r, "publish", "send_email")
  /\ \E ok \in BOOLEAN :
       LET sent == Append(reqs[r].sent, NewsletterMail(subscriber.value, reqs[r].body, ok))
       IN IF ok
          THEN \E rows \in Orders(SelectConfirmed(subscriptions)) :
                 LET subscribers == [i \in DOMAIN rows |->
                                      SubscriberEmail_parse(rows[i].email)]
                 IN LoopAt(r, subscribers,
                           NextValid(subscribers, reqs[r].next + 1), sent)
          ELSE SendFailed(r, subscriber, sent)
  /\ UNCHANGED <<store, nextId, nextTok, mailed>>

\* publish_newsletter recording each delivery in the row of the subscriber.
PublishSend_RecordsDelivery(r) ==
  LET subscriber == reqs[r].subscribers[reqs[r].next] IN
  /\ At(r, "publish", "send_email")
  /\ \E ok \in BOOLEAN :
       LET sent == Append(reqs[r].sent, NewsletterMail(subscriber.value, reqs[r].body, ok))
       IN IF ok
          THEN /\ LoopAt(r, reqs[r].subscribers,
                         NextValid(reqs[r].subscribers, reqs[r].next + 1), sent)
               /\ subscriptions' =
                    {IF row.email = subscriber.value /\ row.status = "confirmed"
                     THEN [row EXCEPT !.status = "delivered"] ELSE row :
                       row \in subscriptions}
          ELSE SendFailed(r, subscriber, sent) /\ UNCHANGED subscriptions
  /\ UNCHANGED <<subscription_tokens, users, nextId, nextTok, mailed>>

\* One send of the loop, awaited, and the loop up to the next send.
PublishSend(r) ==
  LET subscriber == reqs[r].subscribers[reqs[r].next] IN
  /\ At(r, "publish", "send_email")
  /\ \E ok \in BOOLEAN :
       LET sent == Append(reqs[r].sent, NewsletterMail(subscriber.value, reqs[r].body, ok))
       IN IF ok
          THEN LoopAt(r, reqs[r].subscribers,
                      NextValid(reqs[r].subscribers, reqs[r].next + 1), sent)
          ELSE SendFailed(r, subscriber, sent)
  /\ UNCHANGED <<store, nextId, nextTok, mailed>>

\* --------------------------------------------------- the whole system

\* The response of slot r is written to the client and the slot is freed.
Respond(r) ==
  /\ reqs[r].pc = "done"
  /\ reqs' = [reqs EXCEPT ![r] = Idle]
  /\ UNCHANGED <<store, nextId, nextTok, mailed>>

\* A row the store may hold from before the service started: its email was
\* accepted by an earlier grammar.
LegacyRow ==
  [id |-> 0, email |-> <<"n">>, name |-> <<"o">>, status |-> "pending_confirmation"]

\* The publisher, and a user whose stored hash is not a PHC string.
InitialUsers ==
  { [user_id |-> "u1", username |-> <<"a">>,
     password_hash |-> PasswordHash(TRUE, <<"p">>)],
    [user_id |-> "u2", username |-> <<"x">>,
     password_hash |-> PasswordHash(FALSE, <<>>)] }

Init ==
  /\ \E legacy \in BOOLEAN :
       /\ subscriptions = IF legacy THEN {LegacyRow} ELSE {}
       /\ subscription_tokens = IF legacy THEN {TokenRow(<<0>>, 0)} ELSE {}
  /\ users = InitialUsers
  /\ reqs = [r \in Requests |-> Idle]
  /\ nextId = 0
  /\ nextTok = 0
  /\ mailed = {}

Next ==
  \E r \in Requests :
    \/ Respond(r)
    \/ \E form \in Forms : StartSubscribe(r, form)
    \/ SubscribeBegin(r)
    \/ insert_subscriber(r)
    \/ store_token(r)
    \/ SubscribeCommit(r)
    \/ send_confirmation_email(r)
    \/ \E subscription_token \in Tokens : StartConfirm(r, subscription_token)
    \/ get_subscriber_id_from_token(r)
    \/ confirm_subscriber(r)
    \/ \E header \in Headers : StartPublish(r, header, WellFormedJson)
    \/ get_stored_credentials(r)
    \/ PublishVerify(r)
    \/ get_confirmed_subscribers(r)
    \/ PublishSend(r)

Spec == Init /\ [][Next]_vars

\* ------------------------------------- publish over every header shape

\* Authorization headers that fail one step of basic_authentication each:
\* bytes that are no visible ASCII, another scheme, the scheme in lower
\* case, a segment that is not base64, decoded bytes that are not UTF-8, a
\* decoded text without ":" and an empty decoded text.  But for the failing
\* step each carries the credentials of the publisher.
MalformedHeaders ==
  { [Header("Basic ", <<"a", ":", "p">>) EXCEPT !.utf8 = FALSE],
    Header("Bearer ", <<"a", ":", "p">>),
    Header("basic ", <<"a", ":", "p">>),
    [Header("Basic ", <<"a", ":", "p">>) EXCEPT !.base64 = FALSE],
    [Header("Basic ", <<"a", ":", "p">>) EXCEPT !.decoded_utf8 = FALSE],
    Header("Basic ", <<"a", "p">>),
    Header("Basic ", <<>>) }

\* Authorization headers whose decoded text holds ":" in other places than
\* between a username and a password: twice, at the end, at the start,
\* alone, and twice in a row.
ColonHeaders ==
  { Header("Basic ", <<"a", ":", "p", ":", "q">>),
    Header("Basic ", <<"a", ":">>),
    Header("Basic ", <<":", "p">>),
    Header("Basic ", <<":">>),
    Header("Basic ", <<"a", ":", ":">>) }

\* Authorization headers of the user whose stored hash is not a PHC string,
\* with other passwords: one that is wrong for every user, the one of the
\* fallback hash, and the empty one.
NonPhcHeaders ==
  { Header("Basic ", <<"x", ":", "q">>),
    Header("Basic ", <<"x", ":", "d">>),
    Header("Basic ", <<"x", ":">>) }

\* A store with one confirmed subscriber, as a subscribe and a confirm of
\* the mailed token leave it.
InitPublish ==
  /\ subscriptions =
       {[NewRow(1, [name |-> <<"p", " ", "n">>, email |-> <<"p", "@", "n">>])
           EXCEPT !.status = "confirmed"]}
  /\ subscription_tokens = {TokenRow(<<1>>, 1)}
  /\ users = InitialUsers
  /\ reqs = [r \in Requests |-> Idle]
  /\ nextId = 1
  /\ nextTok = 1
  /\ mailed = {TokenRow(<<1>>, 1)}

\* Concurrent publish calls only, with well-formed and malformed headers and
\* with every body.
NextPublish ==
  \E r \in Requests :
    \/ Respond(r)
    \/ \E header \in Headers \cup MalformedHeaders \cup ColonHeaders
                         \cup NonPhcHeaders,
            json \in Bodies :
         StartPublish(r, header, json)
    \/ get_stored_credentials(r)
    \/ PublishVerify(r)
    \/ get_confirmed_subscribers(r)
    \/ PublishSend(r)

SpecPublish == InitPublish /\ [][NextPublish]_vars

\* The steps of a publish call after its first: each is the return of an
\* await on the store, on the blocking task or on the email transport.
PublishStep(r) ==
  \/ get_stored_credentials(r)
  \/ PublishVerify(r)
  \/ get_confirmed_subscribers(r)
  \/ PublishSend(r)

\* The publish calls when every await returns and the runtime polls every
\* handler whose await has returned: a call that can step again and again
\* does step, and a response that is ready is written.
FairPublish ==
  /\ SpecPublish
  /\ \A r \in Requests : WF_vars(Respond(r)) /\ SF_vars(PublishStep(r))

\* ------------------------------------ subscribe over every form shape

\* The string of n characters c.
Repeat(c, n) == [i \in 1..n |-> c]

\* Names a form may carry: three that pass (the second at the limit of 256
\* graphemes, the third with whitespace at both ends), and names breaking
\* each rule and each pair of rules a name can break together.
Names ==
  { <<"p", " ", "n">>,
    Repeat("a", MaxNameGraphemes),
    <<" ", "a", " ">>,
    <<>>,
    <<" ", " ">>,
    Repeat("a", MaxNameGraphemes + 1),
    Repeat(" ", MaxNameGraphemes + 1),
    <<"a", "/">>,
    <<"(">>,
    Repeat("a", MaxNameGraphemes - 1) \o <<"}">>,
    Repeat("a", MaxNameGraphemes) \o <<"<">> }

\* Emails a form may carry: one that passes, and addresses without "@",
\* without subject, without domain, and the empty string.
Emails ==
  { <<"p", "@", "n">>, <<"n">>, <<"@", "n">>, <<"p", "@">>, <<>> }

\* The forms over these names and emails.
FormsToValidate == [name : Names, email : Emails]

\* Concurrent subscribe calls only, over every form; at most MaxValidForms
\* of them get past the validation.
NextValidate ==
  \E r \in Requests :
    \/ Respond(r)
    \/ \E form \in FormsToValidate :
         /\ StartSubscribe(r, form)
         /\ NewSubscriber_try_from(form).ok
              => nextId + Cardinality(AwaitingId) < MaxValidForms
    \/ SubscribeBegin(r)
    \/ insert_subscriber(r)
    \/ store_token(r)
    \/ SubscribeCommit(r)
    \/ send_confirmation_email(r)

SpecValidate == Init /\ [][NextValidate]_vars

\* ------------------------------------------------------- properties

\* The handler of slot r has returned and its response is still in the slot.
Done(r, kind) == reqs[r].kind = kind /\ reqs[r].pc = "done"

Status(r) == reqs[r].resp[1].status

\* The publish call of slot r got the list of confirmed subscribers.
Loaded(r) == reqs[r].next > 0

\* The addresses of the subscribers of the list that parsed, in list order.
ValidRecipients(subscribers) ==
  LET valid == SelectSeq(subscribers, LAMBDA x : x.ok)
  IN [i \in DOMAIN valid |-> valid[i].value]

\* The addresses the mails of a call were sent to, in the order of the sends.
Recipients(sent) == [i \in DOMAIN sent |-> sent[i].to]

\* publish_newsletter was called for the request of slot r: the extractor
\* made a BodyData of its body.
Called(r) ==
  reqs[r].kind = "publish"
  /\ (reqs[r].error = None \/ reqs[r].error[1].variant # "JsonPayloadError")

\* How many elements of the sequence xs equal x.
Count(xs, x) == Cardinality({i \in DOMAIN xs : xs[i] = x})

\* C1: in publish a delivery failure for one subscriber does not abort the
\* loop: whatever sends fail, every subscriber of the list whose email is
\* valid has had a send attempted when the call returns, those after a
\* failed send included.
C1_EverySubscriberAttempted ==
  \A r \in Requests :
    Done(r, "publish") /\ Loaded(r)
      => Recipients(reqs[r].sent) = ValidRecipients(reqs[r].subscribers)

\* C2: an authenticated publish whose subscriber load succeeded returns 200,
\* whatever the outcome of the single deliveries.
C2_PublishReturnsOk ==
  \A r \in Requests : Done(r, "publish") /\ Loaded(r) => Status(r) = 200

\* C3: an authenticated publish sends exactly one email to each confirmed
\* subscriber with a valid stored email and none to a pending one; with
\* no confirmed subscriber it sends nothing and returns 200.
C3_OneMailPerConfirmedSubscriber ==
  \A r \in Requests :
    Done(r, "publish") /\ Loaded(r) =>
      LET to == Recipients(reqs[r].sent)
          listed == ValidRecipients(reqs[r].subscribers)
          addresses == {row.email : row \in subscriptions}
      IN /\ \A e \in addresses : Count(to, e) = Count(listed, e)
         /\ \A i \in DOMAIN to : to[i] \in addresses
         /\ \A e \in addresses :
              Count(to, e) <= Cardinality({row \in subscriptions :
                                 row.email = e /\ row.status = "confirmed"})
         /\ reqs[r].subscribers = <<>> => reqs[r].sent = <<>> /\ Status(r) = 200

\* C4: the two writes of subscribe are atomic: in every state of the
\* committed store each subscriber row has exactly one token row referencing
\* it and each token row references an existing subscriber row.
C4_SubscribeWritesAreAtomic ==
  /\ \A row \in subscriptions :
       Cardinality({t \in subscription_tokens : t.subscriber_id = row.id}) = 1
  /\ \A t \in subscription_tokens :
       \E row \in subscriptions : row.id = t.subscriber_id

\* One subscribe has committed and is sending its mail while another holds
\* its two rows in a transaction that is not committed.
C4_Witness ==
  \E r, q \in Requests :
    /\ reqs[r].kind = "subscribe" /\ reqs[r].pc = "send_confirmation_email"
    /\ \E row \in subscriptions : row.id = reqs[r].subscriber_id[1]
    /\ reqs[q].kind = "subscribe" /\ reqs[q].pc = "commit"
    /\ reqs[q].transaction.subscriptions # {}
    /\ reqs[q].transaction.subscription_tokens # {}

\* C5: the confirmation email is never sent before the transaction of
\* subscribe is committed: every token handed to the transport is mapped to
\* its subscriber by the committed store, the subscriber row is there, and
\* no confirm of a token that has been handed to the transport is answered
\* unauthorized.
C5_MailOnlyAfterCommit ==
  /\ mailed \subseteq subscription_tokens
  /\ \A m \in mailed : \E row \in subscriptions : row.id = m.subscriber_id
  /\ \A r \in Requests :
       reqs[r].kind = "subscribe" /\ reqs[r].sent # <<>> =>
         /\ reqs[r].sent[1].html_body.link[1].subscription_token = reqs[r].token[1]
         /\ TokenRow(reqs[r].token[1], reqs[r].subscriber_id[1]) \in mailed
  /\ \A r \in Requests :
       Done(r, "confirm") /\ Status(r) = 401 =>
         \A m \in mailed : m.subscription_token # reqs[r].token[1]

\* A confirm of a token that had been mailed has been answered 200.
C5_Witness ==
  \E r \in Requests :
    /\ Done(r, "confirm") /\ Status(r) = 200
    /\ \E m \in mailed : m.subscription_token = reqs[r].token[1]

\* C6: a subscribe with a valid name and email whose storage and transport
\* calls succeed creates exactly one subscriber row, pending and holding the
\* submitted name and email, and exactly one token row for it, hands
\* exactly one email to the transport, and returns 200.
C6_SubscribeCreatesOnePendingRow ==
  [][\A r \in Requests :
       LET id == reqs[r].subscriber_id[1]
           row == [id |-> id, email |-> reqs[r].form.email,
                   name |-> reqs[r].form.name, status |-> "pending_confirmation"]
       IN /\ At(r, "subscribe", "commit") /\ reqs'[r].pc = "send_confirmation_email"
               => /\ subscriptions' = subscriptions \cup {row}
                  /\ row \notin subscriptions
                  /\ subscription_tokens' =
                       subscription_tokens \cup {TokenRow(reqs[r].token[1], id)}
                  /\ TokenRow(reqs[r].token[1], id) \notin subscription_tokens
          /\ At(r, "subscribe", "send_confirmation_email") /\ reqs'[r].pc = "done"
               => /\ Len(reqs'[r].sent) = 1
                  /\ reqs'[r].sent[1].to = reqs[r].form.email
                  /\ reqs'[r].sent[1].ok <=> reqs'[r].resp[1].status = 200
                  /\ Cardinality({x \in subscriptions' : x.id = id}) = 1
                  /\ \A x \in subscriptions' :
                       x.id = id => x.name = row.name /\ x.email = row.email
                  /\ subscriptions' = subscriptions
                  /\ {t \in subscription_tokens' : t.subscriber_id = id} =
                       {TokenRow(reqs[r].token[1], id)}
                  /\ subscription_tokens' = subscription_tokens
     ]_vars

\* A subscribe has returned 200, and its one pending row and its one mail
\* are there.
C6_Witness ==
  \E r \in Requests :
    /\ Done(r, "subscribe") /\ Status(r) = 200
    /\ Len(reqs[r].sent) = 1
    /\ \E row \in subscriptions :
         /\ row.id = reqs[r].subscriber_id[1]
         /\ row.status = "pending_confirmation"
         /\ row.name = reqs[r].form.name /\ row.email = reqs[r].form.email

\* C7: a confirm of a token the store maps to a subscriber, with both
\* storage calls succeeding, returns 200, and the subscriber's status is
\* confirmed when it returns, a subscriber that was pending included.
C7_ConfirmSetsConfirmed ==
  \A r \in Requests :
    Done(r, "confirm") /\ reqs[r].error = None
      /\ (\E t \in subscription_tokens : t.subscription_token = reqs[r].token[1])
      => /\ Status(r) = 200
         /\ reqs[r].subscriber_id # None
         /\ TokenRow(reqs[r].token[1], reqs[r].subscriber_id[1]) \in subscription_tokens
         /\ \E row \in subscriptions : row.id = reqs[r].subscriber_id[1]
         /\ \A row \in subscriptions :
              row.id = reqs[r].subscriber_id[1] => row.status = "confirmed"

\* A confirm of a subscriber that was pending has returned 200.
C7_Witness ==
  \E r \in Requests :
    /\ Done(r, "confirm") /\ Status(r) = 200
    /\ reqs[r].before = {"pending_confirmation"}
    /\ \E row \in subscriptions :
         row.id = reqs[r].subscriber_id[1] /\ row.status = "confirmed"

\* C8: confirm is idempotent: a successful confirm of a subscriber that is
\* confirmed already returns 200 and leaves the whole store as it was, and
\* any successful confirm leaves the store as one confirm of that subscriber
\* leaves it, so repeated or concurrent confirms of a token end where a
\* single one ends.
C8_ConfirmIsIdempotent ==
  [][\A r \in Requests :
       At(r, "confirm", "confirm_subscriber") /\ reqs'[r].pc = "done"
         /\ reqs'[r].error = None
       => LET id == reqs[r].subscriber_id[1]
              others(rows) == {row \in rows : row.id # id}
              statuses(rows) == {row.status : row \in rows \ others(rows)}
          IN /\ reqs'[r].resp[1].status = 200
             /\ others(subscriptions') = others(subscriptions)
             /\ statuses(subscriptions') = {"confirmed"}
             /\ statuses(subscriptions) = {"confirmed"}
                  => subscriptions' = subscriptions
             /\ UNCHANGED <<subscription_tokens, users, mailed>>
     ]_vars

\* A confirm of a subscriber that was confirmed already has returned 200.
C8_Witness ==
  \E r \in Requests :
    /\ Done(r, "confirm") /\ Status(r) = 200
    /\ reqs[r].before = {"confirmed"}

\* C9: a confirm of a token the token table does not hold, be it a token
\* never issued or the token of a subscribe that has not committed, is
\* answered 401 and not 500 when the lookup itself succeeds, and changes no
\* subscriber's status.
C9_UnknownTokenIsUnauthorized ==
  /\ [](\A r \in Requests :
          Done(r, "confirm") /\ reqs[r].error = None
            /\ (\A t \in subscription_tokens :
                  t.subscription_token # reqs[r].token[1])
          => /\ reqs[r].resp = <<[status |-> 401, www_authenticate |-> <<>>,
                                  body |-> <<>>]>>
             /\ reqs[r].subscriber_id = None)
  /\ [][\A r \in Requests :
          reqs[r].kind = "confirm" /\ reqs'[r].pc = "done"
            /\ reqs'[r].resp[1].status = 401
          => UNCHANGED <<subscriptions, subscription_tokens, users, mailed>>
       ]_vars

\* A confirm has been answered 401 for the token another subscribe holds in
\* a transaction that is not committed.
C9_Witness ==
  \E r, q \in Requests :
    /\ Done(r, "confirm") /\ Status(r) = 401
    /\ reqs[q].kind = "subscribe" /\ reqs[q].pc = "commit"
    /\ reqs[q].token = reqs[r].token
    /\ \E t \in reqs[q].transaction.subscription_tokens :
         t.subscription_token = reqs[r].token[1]

\* The username of the publish call of slot r is in no row of users.
UnknownUsername(r) ==
  \A u \in users : u.username # reqs[r].credentials.username

\* The username of the publish call of slot r is in users, with a hash in PHC
\* format of another password than the one of the call.
WrongPassword(r) ==
  \E u \in users :
    /\ u.username = reqs[r].credentials.username
    /\ u.password_hash.phc
    /\ u.password_hash.password # reqs[r].credentials.password

\* The publish call of slot r failed in the query or in the blocking task.
InfrastructureFailure(r) ==
  /\ reqs[r].error # None
  /\ reqs[r].error[1].display[1].text \in
       {"Failed to perform a query to validate auth credentials.",
        "Failed to spawn blocking task."}

\* C10: publish answers an unknown username and an existing username with a
\* wrong password with the same response: 401, the header WWW-Authenticate:
\* Basic realm="publish", an empty body; and it sends no email.
C10_UnknownAndWrongAlike ==
  \A r \in Requests :
    Done(r, "publish") /\ reqs[r].credentials # NoCredentials
      /\ ~InfrastructureFailure(r)
      /\ (UnknownUsername(r) \/ WrongPassword(r))
      => /\ reqs[r].resp = <<[status |-> 401,
                              www_authenticate |-> <<"Basic realm=\"publish\"">>,
                              body |-> <<>>]>>
         /\ reqs[r].sent = <<>>
         /\ ~Loaded(r)

\* A publish with a wrong password has been answered 401 while a publish
\* with an unknown username is about to be answered.
C10_Witness ==
  \E r, q \in Requests :
    /\ Done(r, "publish") /\ WrongPassword(r) /\ Status(r) = 401
    /\ reqs[q].kind = "publish" /\ reqs[q].pc = "verify_password_hash"
    /\ UnknownUsername(q)

\* The header fails a step of the parse: it is missing, is not UTF-8, does
\* not start with "Basic ", is not base64, decodes to bytes that are not
\* UTF-8, or decodes to a text without ":".
MalformedHeader(header) ==
  \/ ~header.present
  \/ ~header.utf8
  \/ header.scheme # "Basic "
  \/ ~header.base64
  \/ ~header.decoded_utf8
  \/ \A i \in 1..Len(header.decoded) : header.decoded[i] # ":"

\* C11: a publish whose Authorization header is missing or fails any step
\* of the parse is answered with AuthError, that is 401 with the header
\* WWW-Authenticate: Basic realm="publish", and never reaches the query of
\* the credential store: it has returned in its first step with no user id
\* and no stored hash read.  The publish is one the handler was called for.
C11_MalformedHeaderIsAuthError ==
  \A r \in Requests :
    Called(r) /\ MalformedHeader(reqs[r].header)
      => /\ reqs[r].pc = "done"
         /\ reqs[r].error # None /\ reqs[r].error[1].variant = "AuthError"
         /\ reqs[r].resp = <<[status |-> 401,
                              www_authenticate |-> <<"Basic realm=\"publish\"">>,
                              body |-> <<>>]>>
         /\ reqs[r].credentials = NoCredentials
         /\ reqs[r].user_id = None
         /\ reqs[r].expected_password_hash = NoHash
         /\ reqs[r].subscribers = <<>> /\ reqs[r].sent = <<>>

\* A publish whose header passes every step but the split at ":" has been
\* answered 401.
C11_Witness ==
  \E r \in Requests :
    /\ Done(r, "publish") /\ Status(r) = 401
    /\ reqs[r].header.present /\ reqs[r].header.utf8
    /\ reqs[r].header.scheme = "Basic " /\ reqs[r].header.base64
    /\ reqs[r].header.decoded_utf8
    /\ reqs[r].header.decoded = <<"a", "p">>

\* C12: in validate_credentials, whenever the lookup of the credentials
\* succeeds, the verification of the hash has finished before an auth
\* decision is returned, for a username some row holds (its stored hash is
\* verified) and for one no row holds (a fixed hash in PHC format is
\* verified in its place): the lookup always leads to the verification, the
\* decision is only taken in the step that awaited it, and a password the
\* verified hash does not match is reported as such whether the user
\* exists or not.
C12_HashBeforeDecision ==
  [][\A r \in Requests :
       LET holders == {u \in users : u.username = reqs[r].credentials.username}
           decided == \/ reqs'[r].pc = "get_confirmed_subscribers"
                      \/ /\ reqs'[r].pc = "done" /\ reqs'[r].error # None
                         /\ reqs'[r].error[1].variant = "AuthError"
       IN /\ At(r, "publish", "get_stored_credentials") /\ reqs'[r] # reqs[r]
             /\ reqs'[r].error = None
               => /\ reqs'[r].pc = "verify_password_hash"
                  /\ holders = {} =>
                       /\ reqs'[r].user_id = None
                       /\ reqs'[r].expected_password_hash.phc
                  /\ holders # {} =>
                       \E u \in holders :
                         /\ reqs'[r].user_id = <<u.user_id>>
                         /\ reqs'[r].expected_password_hash = u.password_hash
          /\ reqs[r].kind = "publish" /\ reqs[r].pc # "done" /\ decided
             /\ reqs'[r].pc # reqs[r].pc
               => /\ reqs[r].pc = "verify_password_hash"
                  /\ reqs[r].expected_password_hash.phc
                  /\ reqs[r].expected_password_hash.password
                       # reqs[r].credentials.password
                       => /\ reqs'[r].pc = "done"
                          /\ reqs'[r].error[1].display[1].text = "Invalid password."
                  /\ reqs'[r].pc = "get_confirmed_subscribers" =>
                       /\ reqs[r].user_id # None
                       /\ reqs[r].expected_password_hash.password
                            = reqs[r].credentials.password
     ]_vars

\* A publish with a username no row holds has been refused by the
\* verification of the fixed hash.
C12_Witness ==
  \E r \in Requests :
    /\ Done(r, "publish") /\ UnknownUsername(r)
    /\ reqs[r].user_id = None
    /\ reqs[r].expected_password_hash = FallbackHash
    /\ reqs[r].error # None
    /\ reqs[r].error[1].display[1].text = "Invalid password."

\* C13: the verification of the credentials gates the broadcast: a publish
\* is loading the confirmed subscribers, has loaded them or has sent a mail
\* only if validate_credentials returned the id of a user whose stored hash
\* matches the password of the request; and a publish that ended in
\* AuthError has loaded no subscriber and sent no mail.
C13_CredentialsGateBroadcast ==
  \A r \in Requests :
    reqs[r].kind = "publish" =>
      /\ (\/ reqs[r].pc \in {"get_confirmed_subscribers", "send_email"}
          \/ Loaded(r)
          \/ reqs[r].subscribers # <<>>
          \/ reqs[r].sent # <<>>)
           => /\ reqs[r].user_id # None
              /\ \E u \in users :
                   /\ u.user_id = reqs[r].user_id[1]
                   /\ u.username = reqs[r].credentials.username
                   /\ u.password_hash.phc
                   /\ u.password_hash.password = reqs[r].credentials.password
      /\ (/\ reqs[r].pc = "done" /\ reqs[r].error # None
          /\ reqs[r].error[1].variant = "AuthError")
           => /\ ~Loaded(r)
              /\ reqs[r].subscribers = <<>>
              /\ reqs[r].sent = <<>>

\* A publish of the publisher has sent a mail and returned 200.
C13_Witness ==
  \E r \in Requests :
    /\ Done(r, "publish") /\ Status(r) = 200
    /\ reqs[r].user_id = <<"u1">>
    /\ reqs[r].sent # <<>>

\* C14: a committed token always resolves to exactly the subscriber it was
\* issued for: no two token rows hold the same token, no step of subscribe,
\* confirm or publish removes or changes a token row, and the subscriber a
\* confirm resolves its token to is the one of the token's row.
C14_TokenMappingIsStable ==
  /\ [](\A t, u \in subscription_tokens :
          t.subscription_token = u.subscription_token => t = u)
  /\ [][/\ subscription_tokens \subseteq subscription_tokens'
        /\ \A r \in Requests :
             At(r, "confirm", "get_subscriber_id_from_token")
               /\ reqs'[r].pc = "confirm_subscriber"
             => TokenRow(reqs[r].token[1], reqs'[r].subscriber_id[1])
                  \in subscription_tokens
       ]_vars

\* A confirm has used a token and returned 200, another subscribe has
\* committed since the store was set up, and the row of the used token is
\* still there.
C14_Witness ==
  \E r \in Requests :
    /\ Done(r, "confirm") /\ Status(r) = 200
    /\ TokenRow(reqs[r].token[1], reqs[r].subscriber_id[1]) \in subscription_tokens
    /\ \E t \in subscription_tokens :
         /\ t.subscription_token # reqs[r].token[1]
         /\ t.subscriber_id > 0

\* C15: the status of a subscriber goes from pending_confirmation to
\* confirmed only: it is always one of the two, a row is created pending, a
\* confirmed row stays confirmed through every later step, and no step
\* removes a row or changes its id, name or email.
C15_StatusStateMachine ==
  /\ [](\A row \in subscriptions :
          row.status \in {"pending_confirmation", "confirmed"})
  /\ [][/\ \A row \in subscriptions' :
             (\A old \in subscriptions : old.id # row.id)
               => row.status = "pending_confirmation"
        /\ \A old \in subscriptions :
             \E row \in subscriptions' :
               /\ row.id = old.id /\ row.name = old.name /\ row.email = old.email
               /\ old.status = "confirmed" => row.status = "confirmed"
       ]_vars

\* A subscriber has been confirmed, and a subscribe that drew its id later
\* has returned with its row pending beside the confirmed one.
C15_Witness ==
  \E r \in Requests :
    /\ Done(r, "subscribe") /\ reqs[r].subscriber_id # None
    /\ \E a, b \in subscriptions :
         /\ a.id > 0 /\ a.status = "confirmed"
         /\ b.id = reqs[r].subscriber_id[1] /\ b.id > a.id
         /\ b.status = "pending_confirmation"

\* The subscribe of slot r returned the error of a step of its transaction.
TransactionFailed(r) ==
  /\ reqs[r].error # None
  /\ reqs[r].error[1].display[1].text \in
       {"Failed to acquire a Postgres connection from the pool",
        "Failed to insert new subscriber in the database.",
        "Failed to store the confirmation token for a new subscriber.",
        "Failed to commit SQL transaction to store a new subscriber."}

\* C16: a subscribe whose transaction fails at begin, at the insert of the
\* subscriber, at the insert of the token or at the commit returns
\* UnexpectedError, that is 500, sends no confirmation email, and leaves the
\* committed store as it was, holding neither the new subscriber row nor
\* the new token row.
C16_FailedTransactionLeavesNothing ==
  /\ [](\A r \in Requests :
          Done(r, "subscribe") /\ TransactionFailed(r) =>
            /\ reqs[r].error[1].variant = "UnexpectedError"
            /\ Status(r) = 500
            /\ reqs[r].sent = <<>>
            /\ reqs[r].subscriber_id # None =>
                 /\ \A row \in subscriptions : row.id # reqs[r].subscriber_id[1]
                 /\ \A t \in subscription_tokens :
                      t.subscriber_id # reqs[r].subscriber_id[1]
            /\ reqs[r].token # None =>
                 \A t \in subscription_tokens \cup mailed :
                   t.subscription_token # reqs[r].token[1])
  /\ [][\A r \in Requests :
          reqs[r].kind = "subscribe" /\ reqs'[r].pc = "done"
            /\ reqs[r].pc \in {"begin", "insert_subscriber", "store_token", "commit"}
          => /\ reqs'[r].error # None
             /\ reqs'[r].resp[1].status = 500
             /\ reqs'[r].sent = <<>>
             /\ UNCHANGED <<subscriptions, subscription_tokens, mailed>>
       ]_vars

\* A subscribe whose commit failed, after both inserts, has returned 500.
C16_Witness ==
  \E r \in Requests :
    /\ Done(r, "subscribe") /\ Status(r) = 500
    /\ reqs[r].error[1].display[1].text =
         "Failed to commit SQL transaction to store a new subscriber."
    /\ reqs[r].subscriber_id # None /\ reqs[r].token # None

\* C17: when the transaction of a subscribe has committed and the send of
\* the confirmation email fails, subscribe returns UnexpectedError, that is
\* 500, and the subscriber row, created pending, and its token row stay in
\* the store: the token still resolves to that subscriber, so a confirm
\* presenting it finds the subscriber to confirm.
C17_FailedEmailKeepsRows ==
  /\ [](\A r \in Requests :
          Done(r, "subscribe") /\ reqs[r].sent # <<>> /\ ~reqs[r].sent[1].ok =>
            LET id == reqs[r].subscriber_id[1]
                token == reqs[r].token[1]
            IN /\ reqs[r].error # None
               /\ reqs[r].error[1].variant = "UnexpectedError"
               /\ Status(r) = 500
               /\ \E row \in subscriptions :
                    /\ row.id = id
                    /\ row.name = reqs[r].form.name
                    /\ row.email = reqs[r].form.email
               /\ {t \in subscription_tokens : t.subscription_token = token}
                    = {[subscription_token |-> token, subscriber_id |-> id]})
  /\ [][\A r \in Requests :
          At(r, "subscribe", "send_confirmation_email") /\ reqs'[r].pc = "done"
          => UNCHANGED <<subscriptions, subscription_tokens>>
       ]_vars

\* A subscribe whose email failed has returned 500; its row is pending in
\* the store and a confirm of its token has found the subscriber.
C17_Witness ==
  \E r, q \in Requests :
    /\ Done(r, "subscribe") /\ Status(r) = 500
    /\ reqs[r].sent # <<>> /\ ~reqs[r].sent[1].ok
    /\ \E row \in subscriptions :
         row.id = reqs[r].subscriber_id[1] /\ row.status = "pending_confirmation"
    /\ reqs[q].kind = "confirm" /\ reqs[q].pc = "confirm_subscriber"
    /\ reqs[q].token = reqs[r].token
    /\ reqs[q].subscriber_id = reqs[r].subscriber_id

\* The texts of the rules the name breaks, in the order of the rules:
\* nothing but whitespace, more than 256 graphemes, a forbidden character.
NameViolations(name) ==
  (IF \A i \in 1..Len(name) : name[i] = " "
   THEN <<"name cannot be empty!">> ELSE <<>>)
  \o (IF Len(name) > 256
      THEN <<"name cannot be more than 256 characters!">> ELSE <<>>)
  \o (IF \E i \in 1..Len(name) :
            name[i] \in {"/", "(", ")", "\"", "<", ">", "\\", "{", "}"}
      THEN <<"name cannot contain special characters!">> ELSE <<>>)

\* The violations of a form: those of its name, then the one of its email.
Violations(form) ==
  [i \in 1..Len(NameViolations(form.name)) |->
     [text |-> NameViolations(form.name)[i], arg |-> <<>>]]
  \o (IF validate_email(form.email) THEN <<>>
      ELSE <<[text |-> " is not a valid subscriber email", arg |-> form.email]>>)

\* The text is the messages with ", " between neighbours.
IsJoinOf(text, messages) ==
  /\ Len(text) = IF messages = <<>> THEN 0 ELSE 2 * Len(messages) - 1
  /\ \A i \in 1..Len(messages) : text[2 * i - 1] = messages[i]
  /\ \A i \in 1..(Len(messages) - 1) : text[2 * i] = [text |-> ", ", arg |-> <<>>]

\* C18: a subscribe whose name or email fails validation returns
\* ValidationError, that is 400, with the joined messages of the violations
\* as its body, in its first step: it opens no transaction, draws no id and
\* no token, writes no row and sends no email.
C18_ValidationFailureIsTerminal ==
  [][\A r \in Requests :
       Free(r) /\ reqs'[r].kind = "subscribe" /\ Violations(reqs'[r].form) # <<>>
       => /\ reqs'[r].pc = "done"
          /\ reqs'[r].error # None
          /\ reqs'[r].error[1].variant = "ValidationError"
          /\ reqs'[r].resp[1].status = 400
          /\ reqs'[r].resp[1].body = reqs'[r].error[1].display
          /\ IsJoinOf(reqs'[r].resp[1].body, Violations(reqs'[r].form))
          /\ reqs'[r].transaction = NoTx
          /\ reqs'[r].subscriber_id = None /\ reqs'[r].token = None
          /\ reqs'[r].sent = <<>>
          /\ UNCHANGED <<subscriptions, subscription_tokens, users, nextId,
                         nextTok, mailed>>
     ]_vars

\* A subscribe with a valid name and an email without subject has been
\* answered 400 while another subscribe holds an open transaction.
C18_Witness ==
  \E r, q \in Requests :
    /\ Done(r, "subscribe") /\ Status(r) = 400
    /\ reqs[r].form = [name |-> <<"p", " ", "n">>, email |-> <<"@", "n">>]
    /\ reqs[r].resp[1].body # <<>>
    /\ reqs[q].kind = "subscribe" /\ reqs[q].pc = "commit"

\* C19: the parse of a form into a NewSubscriber runs both parses and does
\* not stop at the first that fails: it succeeds exactly when the name and
\* the email both parse, and otherwise its violations are those of the name
\* followed by the one of the email, for whichever sides failed; the
\* handler answers a form that fails with the join of exactly that list.
C19_ParseIsApplicative ==
  \A r \in Requests :
    reqs[r].kind = "subscribe" =>
      LET form == reqs[r].form
          parsed == NewSubscriber_try_from(form)
      IN /\ parsed.ok <=> (NameViolations(form.name) = <<>>
                           /\ validate_email(form.email))
         /\ parsed.errors = Violations(form)
         /\ parsed.ok => parsed.name = form.name /\ parsed.email = form.email
         /\ Violations(form) # <<>> =>
              /\ reqs[r].pc = "done"
              /\ IsJoinOf(reqs[r].error[1].display, Violations(form))
         /\ Violations(form) = <<>> =>
              /\ reqs[r].new_subscriber = form
              /\ reqs[r].error = None \/ reqs[r].error[1].variant # "ValidationError"

\* A form with an empty name and an email without "@" has been answered
\* with the complaint about the name and the complaint about the email.
C19_Witness ==
  \E r \in Requests :
    /\ Done(r, "subscribe") /\ Status(r) = 400
    /\ reqs[r].form = [name |-> <<>>, email |-> <<"n">>]
    /\ Len(reqs[r].resp[1].body) = 3
    /\ reqs[r].resp[1].body[1].text = "name cannot be empty!"
    /\ reqs[r].resp[1].body[3] =
         [text |-> " is not a valid subscriber email", arg |-> <<"n">>]

\* C20: the parse of a name evaluates its three rules independently and
\* returns one violation for each rule the name breaks: for every
\* combination of rules a name breaks the list holds exactly the messages
\* of those rules, in the order of the rules, and the name is accepted
\* exactly when the list is empty.
C20_NameRulesAreIndependent ==
  \A r \in Requests :
    reqs[r].kind = "subscribe" =>
      LET name == reqs[r].form.name
          result == SubscriberName_parse(name)
      IN /\ Len(result.errors) = Len(NameViolations(name))
         /\ \A i \in 1..Len(result.errors) :
              result.errors[i] = [text |-> NameViolations(name)[i], arg |-> <<>>]
         /\ result.ok <=> NameViolations(name) = <<>>
         /\ result.ok => result.value = name
         /\ validate_email(reqs[r].form.email) /\ NameViolations(name) # <<>> =>
              /\ reqs[r].pc = "done"
              /\ Len(reqs[r].error[1].display) = 2 * Len(NameViolations(name)) - 1
              /\ \A i \in 1..Len(NameViolations(name)) :
                   reqs[r].error[1].display[2 * i - 1].text = NameViolations(name)[i]

\* A name of 257 graphemes that holds a forbidden character has been
\* answered with two violations.
C20_Witness ==
  \E r \in Requests :
    /\ Done(r, "subscribe") /\ Status(r) = 400
    /\ Len(reqs[r].form.name) = 257
    /\ reqs[r].form.name[257] = "<"
    /\ reqs[r].form.email = <<"p", "@", "n">>
    /\ Len(reqs[r].resp[1].body) = 3
    /\ reqs[r].resp[1].body[1].text = "name cannot be more than 256 characters!"
    /\ reqs[r].resp[1].body[3].text = "name cannot contain special characters!"

\* C21: a name that is not whitespace only, has at most 256 graphemes and
\* holds no forbidden character parses, and the parsed name is the string
\* as submitted, with the whitespace at its ends; that string is what
\* subscribe writes to the row.  A name of 256 graphemes is accepted, one of
\* 257 is rejected.
C21_ValidNameIsKeptUnchanged ==
  \A r \in Requests :
    reqs[r].kind = "subscribe" =>
      LET name == reqs[r].form.name
          result == SubscriberName_parse(name)
          valid == /\ \E i \in 1..Len(name) : name[i] # " "
                   /\ Len(name) <= 256
                   /\ \A i \in 1..Len(name) :
                        name[i] \notin {"/", "(", ")", "\"", "<", ">", "\\", "{", "}"}
          id == reqs[r].subscriber_id
      IN /\ valid => result.ok /\ result.value = name
         /\ name = [i \in 1..256 |-> "a"] => result.ok
         /\ name = [i \in 1..257 |-> "a"] => ~result.ok /\ Done(r, "subscribe")
                                              /\ Status(r) = 400
         /\ valid /\ reqs[r].pc # "done" => reqs[r].new_subscriber.name = name
         /\ id # None =>
              /\ \A row \in subscriptions \cup reqs[r].transaction.subscriptions :
                   row.id = id[1] => row.name = name
              /\ reqs[r].pc \in {"store_token", "commit"} =>
                   \E row \in reqs[r].transaction.subscriptions : row.id = id[1]
              /\ reqs[r].pc = "send_confirmation_email" =>
                   \E row \in subscriptions : row.id = id[1]

\* A subscribe has stored a row whose name has 256 graphemes while a name
\* of 257 graphemes has been answered 400.
C21_Witness ==
  \E r, q \in Requests :
    /\ reqs[r].kind = "subscribe" /\ reqs[r].pc = "send_confirmation_email"
    /\ Len(reqs[r].form.name) = 256
    /\ \E row \in subscriptions :
         row.id = reqs[r].subscriber_id[1] /\ row.name = reqs[r].form.name
    /\ Done(q, "subscribe") /\ Status(q) = 400
    /\ reqs[q].form = [name |-> [i \in 1..257 |-> "a"], email |-> <<"p", "@", "n">>]

\* C22: the HTML body and the plain-text body of the confirmation email
\* embed the same URL, the base URL followed by
\* /subscriptions/confirm?subscription_token= and the token, and the token
\* is the one the same subscribe call stored for its new subscriber.
C22_BothBodiesCarryTheStoredLink ==
  \A r \in Requests :
    reqs[r].kind = "subscribe" /\ reqs[r].sent # <<>> =>
      LET mail == reqs[r].sent[1]
          url == [base_url |-> "http://127.0.0.1",
                  path |-> "/subscriptions/confirm?subscription_token=",
                  subscription_token |-> reqs[r].token[1]]
      IN /\ mail.html_body.link = mail.text_body.link
         /\ mail.html_body.link = <<url>>
         /\ \E t \in subscription_tokens :
              /\ t.subscription_token = url.subscription_token
              /\ t.subscriber_id = reqs[r].subscriber_id[1]
         /\ \A t \in subscription_tokens :
              t.subscription_token = url.subscription_token
                => t.subscriber_id = reqs[r].subscriber_id[1]
         /\ \E row \in subscriptions :
              row.id = reqs[r].subscriber_id[1] /\ row.email = mail.to

\* A subscribe has sent its mail after another had sent one for another
\* token: the link of the second mail holds the token of the second call.
C22_Witness ==
  \E r \in Requests :
    /\ Done(r, "subscribe") /\ reqs[r].sent # <<>>
    /\ reqs[r].sent[1].text_body.link[1].subscription_token = reqs[r].token[1]
    /\ reqs[r].sent[1].html_body.link = reqs[r].sent[1].text_body.link
    /\ \E m \in mailed : m.subscription_token # reqs[r].token[1]

\* C23: a publish request whose JSON body has no title or no content is
\* answered 400 and no email is sent for it, whatever its Authorization
\* header, the publisher's valid credentials included: the request ends in
\* its first step, before the credentials are looked at.
C23_MalformedBodyIsBadRequest ==
  \A r \in Requests :
    reqs[r].kind = "publish"
      /\ (reqs[r].json[1].title = <<>> \/ reqs[r].json[1].content = <<>>)
      => /\ reqs[r].pc = "done"
         /\ Status(r) = 400
         /\ reqs[r].resp[1].www_authenticate = <<>>
         /\ reqs[r].sent = <<>>
         /\ reqs[r].subscribers = <<>>
         /\ reqs[r].credentials = NoCredentials
         /\ reqs[r].user_id = None

\* A request with the publisher's credentials and a body without title has
\* been answered 400 while a request with the whole body is sending.
C23_Witness ==
  \E r, q \in Requests :
    /\ Done(r, "publish") /\ Status(r) = 400
    /\ reqs[r].header.decoded = <<"a", ":", "p">> /\ ~MalformedHeader(reqs[r].header)
    /\ reqs[r].json[1].title = <<>> /\ reqs[r].json[1].content # <<>>
    /\ reqs[q].kind = "publish" /\ reqs[q].pc = "send_email"

C25_TokenAfterSubscriberRow ==
  [][\A r \in Requests :
       reqs[r].kind = "subscribe" /\ reqs'[r].kind = "subscribe"
       /\ reqs'[r] # reqs[r] =>
         LET tx == reqs[r].transaction
             tx2 == reqs'[r].transaction
             id == reqs[r].subscriber_id
             failed == reqs'[r].pc = "done"
         IN /\ <<reqs[r].pc, reqs'[r].pc>> \in
                 { <<"begin", "insert_subscriber">>, <<"begin", "done">>,
                   <<"insert_subscriber", "store_token">>,
                   <<"insert_subscriber", "done">>,
                   <<"store_token", "commit">>, <<"store_token", "done">>,
                   <<"commit", "send_confirmation_email">>, <<"commit", "done">>,
                   <<"send_confirmation_email", "done">> }
            /\ \/ reqs'[r].token # reqs[r].token
               \/ nextTok' # nextTok
               \/ ~(tx2.subscription_tokens \subseteq tx.subscription_tokens)
                 => /\ reqs[r].pc = "store_token"
                    /\ id # None
                    /\ \E row \in tx.subscriptions : row.id = id[1]
                    /\ reqs[r].token = None
                    /\ nextTok' = nextTok + 1
                    /\ ~failed =>
                         /\ reqs'[r].token = <<(<<nextTok'>>)>>
                         /\ tx2.subscription_tokens =
                              {TokenRow(reqs'[r].token[1], id[1])}
                         /\ tx2.subscriptions = tx.subscriptions
            /\ reqs[r].pc = "insert_subscriber" =>
                 /\ tx = NoTx /\ id = None /\ reqs[r].token = None
                 /\ nextTok' = nextTok
                 /\ reqs'[r].token = None
                 /\ tx2.subscription_tokens = {}
                 /\ failed => /\ tx2 = NoTx
                              /\ UNCHANGED <<subscriptions, subscription_tokens>>
            /\ reqs[r].pc = "commit" =>
                 /\ Cardinality(tx.subscriptions) = 1
                 /\ tx.subscription_tokens = {TokenRow(reqs[r].token[1], id[1])}
            /\ subscription_tokens' # subscription_tokens
                 => reqs[r].pc = "commit" /\ ~failed
                    /\ subscriptions' = subscriptions \cup tx.subscriptions
     ]_vars

\* A subscribe call has ended at its subscriber insert, with no token, while
\* another holds its subscriber row and its token in an open transaction.
C25_Witness ==
  \E r, q \in Requests :
    /\ Done(r, "subscribe") /\ Status(r) = 500
    /\ reqs[r].error[1].display[1].text =
         "Failed to insert new subscriber in the database."
    /\ reqs[r].token = None /\ reqs[r].subscriber_id = None
    /\ reqs[q].kind = "subscribe" /\ reqs[q].pc = "commit"
    /\ reqs[q].transaction.subscription_tokens # {}

\* C26: in confirm a storage failure of the token lookup and a storage
\* failure of the status update are answered alike, 500 with an empty body
\* and no header of the handler, so the response does not tell which step
\* failed; the step in which the update fails leaves the status of every
\* subscriber, and the rest of the store, as it was.
C26_ConfirmFailuresAreAlike ==
  [][\A r \in Requests :
       reqs[r].kind = "confirm" /\ reqs[r].pc # "done" /\ reqs'[r].pc = "done"
       /\ reqs'[r].error # None
       => /\ reqs[r].pc \in {"get_subscriber_id_from_token", "confirm_subscriber"}
          /\ reqs'[r].resp =
               <<[status |-> 500, www_authenticate |-> <<>>, body |-> <<>>]>>
          /\ subscriptions' = subscriptions
          /\ subscription_tokens' = subscription_tokens
          /\ reqs[r].pc = "confirm_subscriber" =>
               \A row \in subscriptions :
                 row.id = reqs[r].subscriber_id[1] => row \in subscriptions'
     ]_vars

\* The update of a confirm has failed for a subscriber that is still
\* pending, and the call has been answered 500.
C26_Witness ==
  \E r \in Requests :
    /\ Done(r, "confirm") /\ Status(r) = 500
    /\ reqs[r].subscriber_id # None
    /\ reqs[r].resp[1].body = <<>>
    /\ \E row \in subscriptions :
         row.id = reqs[r].subscriber_id[1] /\ row.status = "pending_confirmation"

\* C27: validate_credentials returns a user id only if a row of users holds
\* the username and the password verifies against the hash of that row, and
\* the id it returns is the one of that row; when no row holds the username
\* it never returns a user id, and it returns AuthError also when the
\* password verifies against the hash used in place of a stored one.
C27_UserIdOnlyForVerifiedUser ==
  [][\A r \in Requests :
       reqs[r].kind = "publish" /\ reqs[r].pc = "verify_password_hash"
       /\ reqs'[r] # reqs[r] =>
         LET username == reqs[r].credentials.username
             password == reqs[r].credentials.password
             rows == {u \in users : u.username = username}
             returned_id == reqs'[r].pc # "done"
         IN /\ returned_id =>
                 /\ reqs'[r].pc = "get_confirmed_subscribers"
                 /\ reqs'[r].error = None
                 /\ \E u \in rows :
                      /\ reqs'[r].user_id = <<u.user_id>>
                      /\ reqs[r].expected_password_hash = u.password_hash
                      /\ u.password_hash.phc
                      /\ u.password_hash.password = password
            /\ rows = {} =>
                 /\ ~returned_id
                 /\ reqs[r].user_id = <<>>
                 /\ reqs'[r].error # None
                 /\ reqs'[r].error[1].variant \in {"AuthError", "UnexpectedError"}
                 /\ reqs'[r].error[1].variant = "UnexpectedError" =>
                      reqs'[r].error[1].display[1].text = "Failed to spawn blocking task."
                 /\ reqs'[r].error[1].variant = "AuthError" =>
                      reqs'[r].resp[1].status = 401
                 /\ reqs'[r].subscribers = <<>> /\ reqs'[r].sent = <<>>
     ]_vars

\* A request with a username no row holds and the password of the hash used
\* in its place has been answered AuthError, unknown username.
C27_Witness ==
  \E r \in Requests :
    /\ Done(r, "publish") /\ Status(r) = 401
    /\ reqs[r].credentials = [username |-> <<"g">>, password |-> <<"d">>]
    /\ reqs[r].expected_password_hash.phc
    /\ reqs[r].expected_password_hash.password = reqs[r].credentials.password
    /\ reqs[r].user_id = <<>>
    /\ reqs[r].error[1].variant = "AuthError"
    /\ reqs[r].error[1].display[1].text = "Unknown username."

\* C28: the parse of the Basic credentials splits the decoded text once,
\* at its first ":": the username is all that stands before it and holds
\* no ":", the password is all that stands after it, further ":" and the
\* empty string included; a decoded text without ":" is answered AuthError.
C28_SplitAtFirstColon ==
  \A r \in Requests :
    Called(r) /\ reqs[r].header.present /\ reqs[r].header.utf8
      /\ reqs[r].header.scheme = "Basic " /\ reqs[r].header.base64
      /\ reqs[r].header.decoded_utf8 =>
        LET decoded == reqs[r].header.decoded
            username == reqs[r].credentials.username
            password == reqs[r].credentials.password
        IN IF \E i \in 1..Len(decoded) : decoded[i] = ":"
           THEN /\ username \o <<":">> \o password = decoded
                /\ \A i \in 1..Len(username) : username[i] # ":"
                /\ reqs[r].error # None =>
                     reqs[r].error[1].display[1].text
                       # "A password must be provided in 'Basic' auth."
           ELSE /\ reqs[r].pc = "done"
                /\ reqs[r].error # None
                /\ reqs[r].error[1].variant = "AuthError"
                /\ Status(r) = 401
                /\ reqs[r].credentials = NoCredentials

\* A request whose decoded credentials hold two ":" is verifying the
\* password that starts after the first and holds the second.
C28_Witness ==
  \E r \in Requests :
    /\ reqs[r].kind = "publish" /\ reqs[r].pc = "verify_password_hash"
    /\ reqs[r].header.decoded = <<"a", ":", "p", ":", "q">>
    /\ reqs[r].credentials = [username |-> <<"a">>, password |-> <<"p", ":", "q">>]

\* C29: within one publish call the sends run one after the other: at
\* most one send_email of the call is in flight in any state, it is the one
\* for the subscriber the loop is at, every send for an earlier subscriber
\* has returned, and the send for a later subscriber starts only in the
\* step in which the one in flight returns.
C29_SendsAreSequential ==
  /\ [](\A r \in Requests :
          reqs[r].kind = "publish" =>
            /\ Cardinality(reqs[r].in_flight) <= 1
            /\ reqs[r].in_flight =
                 IF reqs[r].pc = "send_email" THEN {reqs[r].next} ELSE {}
            /\ reqs[r].pc = "send_email" =>
                 /\ reqs[r].subscribers[reqs[r].next].ok
                 /\ Len(reqs[r].sent) =
                      Cardinality({j \in 1..(reqs[r].next - 1) :
                                     reqs[r].subscribers[j].ok})
                 /\ \A j \in DOMAIN reqs[r].sent : reqs[r].sent[j].ok)
  /\ [][\A r \in Requests :
          reqs[r].kind = "publish" /\ reqs'[r].kind = "publish"
          /\ reqs'[r].in_flight # reqs[r].in_flight /\ reqs'[r].in_flight # {}
          => \/ /\ reqs[r].pc = "get_confirmed_subscribers"
                /\ reqs[r].in_flight = {} /\ reqs[r].sent = <<>>
             \/ /\ reqs[r].pc = "send_email"
                /\ \A i \in reqs[r].in_flight, j \in reqs'[r].in_flight : i < j
                /\ reqs'[r].sent =
                     Append(reqs[r].sent, reqs'[r].sent[Len(reqs'[r].sent)])
                /\ reqs'[r].sent[Len(reqs'[r].sent)].to =
                     reqs[r].subscribers[reqs[r].next].value
       ]_vars

\* The send to the first subscriber of a publish has returned and the send
\* to the second is in flight.
C29_Witness ==
  \E r \in Requests :
    /\ reqs[r].kind = "publish" /\ reqs[r].pc = "send_email"
    /\ Len(reqs[r].sent) = 1 /\ reqs[r].sent[1].ok
    /\ reqs[r].in_flight = {reqs[r].next}
    /\ reqs[r].next > 1
    /\ reqs[r].subscribers[reqs[r].next - 1].ok

\* C30: every publish that reaches the loop over the subscribers has a
\* title that is not the empty string: a request whose title is empty is
\* answered with a validation error, 400, loads no subscriber and sends no
\* email, so no email with an empty subject is handed to the transport.
C30_BroadcastHasTitle ==
  \A r \in Requests :
    reqs[r].kind = "publish" =>
      /\ reqs[r].pc \in {"get_confirmed_subscribers", "send_email"} \/ Loaded(r)
           => reqs[r].body.title # ""
      /\ \A i \in DOMAIN reqs[r].sent : reqs[r].sent[i].subject.text # ""
      /\ reqs[r].json # <<>> /\ reqs[r].json[1].title = <<"">>
           => reqs[r].pc = "done" /\ Status(r) = 400 /\ reqs[r].sent = <<>>

\* C31: concurrent subscribe calls run independently.  Two calls under way
\* never hold the same subscriber id or the same token and their
\* transactions share no row; a call that has sent its email has its own
\* subscriber row and its own token row in the store, and the token of its
\* email resolves to its subscriber and to no other; a step of one call,
\* its failure and rollback included, removes and alters no committed row,
\* adds only rows of its own subscriber, and leaves the other call as it is.
C31_SubscribesAreIndependent ==
  /\ [](/\ \A r, q \in Requests :
             r # q /\ reqs[r].kind = "subscribe" /\ reqs[q].kind = "subscribe" =>
               /\ reqs[r].subscriber_id # None => reqs[r].subscriber_id # reqs[q].subscriber_id
               /\ reqs[r].token # None => reqs[r].token # reqs[q].token
               /\ reqs[r].transaction.subscriptions
                    \cap reqs[q].transaction.subscriptions = {}
               /\ reqs[r].transaction.subscription_tokens
                    \cap reqs[q].transaction.subscription_tokens = {}
        /\ \A r \in Requests :
             reqs[r].kind = "subscribe" /\ reqs[r].sent # <<>> =>
               LET id == reqs[r].subscriber_id[1]
                   token == reqs[r].sent[1].text_body.link[1].subscription_token
               IN /\ Cardinality({row \in subscriptions : row.id = id}) = 1
                  /\ {t \in subscription_tokens : t.subscriber_id = id}
                       = {[subscription_token |-> token, subscriber_id |-> id]}
                  /\ {t.subscriber_id : t \in {u \in subscription_tokens :
                                                 u.subscription_token = token}} = {id}
        /\ \A m \in mailed :
             \A t \in subscription_tokens :
               t.subscription_token = m.subscription_token
                 => t.subscriber_id = m.subscriber_id)
  /\ [][\A r \in Requests :
          reqs[r].kind = "subscribe" /\ reqs'[r] # reqs[r] /\ reqs[r].pc # "done" =>
            /\ \A q \in Requests \ {r} : reqs'[q] = reqs[q]
            /\ subscriptions \subseteq subscriptions'
            /\ subscription_tokens \subseteq subscription_tokens'
            /\ \A row \in subscriptions' \ subscriptions :
                 row.id = reqs[r].subscriber_id[1]
            /\ \A t \in subscription_tokens' \ subscription_tokens :
                 t.subscriber_id = reqs[r].subscriber_id[1]
            /\ reqs'[r].error # None =>
                 UNCHANGED <<subscriptions, subscription_tokens>>
       ]_vars

\* A subscribe has sent its email and returned 200, its two rows are in the
\* store, and another call is at its commit with an id and a token of its
\* own.
C31_Witness ==
  \E r, q \in Requests :
    /\ Done(r, "subscribe") /\ Status(r) = 200
    /\ reqs[q].kind = "subscribe" /\ reqs[q].pc = "commit"
    /\ reqs[q].subscriber_id # reqs[r].subscriber_id
    /\ reqs[q].token # reqs[r].token
    /\ \E row \in subscriptions : row.id = reqs[r].subscriber_id[1]
    /\ \E t \in subscription_tokens :
         t = [subscription_token |-> reqs[r].token[1],
              subscriber_id |-> reqs[r].subscriber_id[1]]

\* C32: a publish call runs to completion or fails outright.  When every
\* await of the call returns, with success or with an error, the call
\* returns a response; and it attempts each subscriber of its list at most
\* once: it never sends more mails than the list has valid subscribers, a
\* send that failed is the last of the call, and the step in which a send
\* fails ends the call.
C32_PublishTerminatesWithoutRetry ==
  /\ \A r \in Requests :
       (reqs[r].kind = "publish") ~> (reqs[r].kind = "publish" /\ reqs[r].pc = "done")
  /\ [](\A r \in Requests :
          reqs[r].kind = "publish" =>
            /\ Len(reqs[r].sent) <= Len(ValidRecipients(reqs[r].subscribers))
            /\ \A i \in DOMAIN reqs[r].sent :
                 ~reqs[r].sent[i].ok => i = Len(reqs[r].sent) /\ reqs[r].pc = "done")
  /\ [][\A r \in Requests :
          reqs[r].kind = "publish" /\ reqs[r].pc = "send_email"
          /\ reqs'[r] # reqs[r] =>
            /\ Len(reqs'[r].sent) = Len(reqs[r].sent) + 1
            /\ IF reqs'[r].sent[Len(reqs'[r].sent)].ok
               THEN reqs'[r].next > reqs[r].next
               ELSE reqs'[r].pc = "done" /\ reqs'[r].error # None
       ]_vars

\* A publish call whose one send failed has returned 500 after one mail.
C32_Witness ==
  \E r \in Requests :
    /\ Done(r, "publish") /\ Status(r) = 500
    /\ Len(reqs[r].subscribers) = 1
    /\ Len(reqs[r].sent) = 1 /\ ~reqs[r].sent[1].ok

\* C33: in publish a storage failure of the lookup of the credentials or
\* of the load of the confirmed subscribers is answered UnexpectedError,
\* 500 without WWW-Authenticate and without body, never AuthError and never
\* 200, and no email is sent: the call ends in the step of the failed query
\* with no subscriber loaded.
C33_StorageFailureIsUnexpected ==
  [][\A r \in Requests :
       reqs[r].kind = "publish" /\ reqs'[r].pc = "done"
       /\ \/ reqs[r].pc = "get_stored_credentials"
          \/ reqs[r].pc = "get_confirmed_subscribers" /\ reqs'[r].next = 0
       => /\ reqs'[r].error # None
          /\ reqs'[r].error[1].variant = "UnexpectedError"
          /\ reqs'[r].resp =
               <<[status |-> 500, www_authenticate |-> <<>>, body |-> <<>>]>>
          /\ reqs'[r].sent = <<>> /\ reqs'[r].subscribers = <<>>
          /\ reqs'[r].in_flight = {}
          /\ mailed' = mailed
     ]_vars

\* The load of the confirmed subscribers has failed for the publisher, whose
\* credentials had been verified, and the call has been answered 500.
C33_Witness ==
  \E r \in Requests :
    /\ Done(r, "publish") /\ Status(r) = 500
    /\ reqs[r].user_id = <<"u1">>
    /\ reqs[r].next = 0 /\ reqs[r].sent = <<>>
    /\ reqs[r].error[1].display[1].text = "error returned from database"

\* C34: double opt-in.  No subscriber is confirmed when the service starts,
\* and the status of a subscriber becomes confirmed only in the step in
\* which a confirm call updates the row, the call having presented a token
\* that the store maps to that very subscriber; no step of a subscribe or
\* of a publish call sets a status to confirmed, and a confirm call changes
\* the status of no subscriber but the one its token maps to.
C34_ConfirmedOnlyByOwnToken ==
  /\ \A row \in subscriptions : row.status # "confirmed"
  /\ [][/\ \A row \in subscriptions' :
             row.status = "confirmed" /\ row \notin subscriptions =>
               \E r \in Requests :
                 /\ reqs[r].kind = "confirm" /\ reqs[r].pc = "confirm_subscriber"
                 /\ reqs'[r].pc = "done" /\ reqs'[r].error = None
                 /\ reqs[r].subscriber_id = <<row.id>>
                 /\ [subscription_token |-> reqs[r].token[1],
                     subscriber_id |-> row.id] \in subscription_tokens
                 /\ \E old \in subscriptions :
                      old.id = row.id /\ old.name = row.name /\ old.email = row.email
        /\ \A r \in Requests :
             reqs'[r] # reqs[r] /\ reqs[r].pc # "done" =>
               /\ reqs[r].kind \in {"subscribe", "publish"} \/ reqs'[r].kind # "confirm"
                    => \A row \in subscriptions' :
                         row.status = "confirmed" => row \in subscriptions
               /\ reqs[r].kind = "confirm" =>
                    \A row \in subscriptions \ subscriptions' :
                      \E t \in subscription_tokens :
                        /\ t.subscription_token = reqs[r].token[1]
                        /\ t.subscriber_id = row.id
       ]_vars

\* A confirm of the token of one subscriber has returned 200: that
\* subscriber is confirmed and another, whose token nobody presented, is
\* still pending.
C34_Witness ==
  \E r \in Requests :
    /\ Done(r, "confirm") /\ Status(r) = 200
    /\ \E a, b \in subscriptions :
         /\ a.id = reqs[r].subscriber_id[1] /\ a.status = "confirmed"
         /\ [subscription_token |-> reqs[r].token[1], subscriber_id |-> a.id]
              \in subscription_tokens
         /\ b.id # a.id /\ b.status = "pending_confirmation"

\* C35: when a row of users holds the username and its stored hash is not
\* a PHC string, validate_credentials returns UnexpectedError, 500 without
\* WWW-Authenticate, and not AuthError, whatever the password of the
\* request; a username no row holds is answered 401 by the same step, so
\* the two outcomes differ.
C35_UnparseableHashIsUnexpected ==
  [][\A r \in Requests :
       reqs[r].kind = "publish" /\ reqs[r].pc = "verify_password_hash"
       /\ reqs'[r] # reqs[r] =>
         LET rows == {u \in users : u.username = reqs[r].credentials.username}
         IN /\ (\E u \in rows : ~u.password_hash.phc) =>
                 /\ reqs'[r].pc = "done"
                 /\ reqs'[r].error # None
                 /\ reqs'[r].error[1].variant = "UnexpectedError"
                 /\ reqs'[r].resp =
                      <<[status |-> 500, www_authenticate |-> <<>>, body |-> <<>>]>>
                 /\ reqs'[r].sent = <<>>
            /\ rows = {} /\ reqs'[r].error[1].variant = "AuthError" =>
                 /\ reqs'[r].resp[1].status = 401
                 /\ reqs'[r].resp[1].www_authenticate # <<>>
     ]_vars

\* The user whose stored hash is not a PHC string has sent the password of
\* the fallback hash and has been answered 500.
C35_Witness ==
  \E r \in Requests :
    /\ Done(r, "publish") /\ Status(r) = 500
    /\ reqs[r].credentials = [username |-> <<"x">>, password |-> <<"d">>]
    /\ reqs[r].user_id = <<"u2">>
    /\ ~reqs[r].expected_password_hash.phc
    /\ reqs[r].error[1].display[1].text = "Failed to parse hash in PHC string format."

\* C36: the recipients of a publish call are the confirmed subscribers as
\* one read finds them, after the credentials were verified and before the
\* first send: the list the call gets holds one entry for each row that is
\* confirmed at the read and none for a pending row, no later step of the
\* call changes the list, whatever confirms commit meanwhile, and the sends
\* of the call go to entries of the list only.
C36_RecipientsAreASnapshot ==
  /\ [](\A r \in Requests :
          reqs[r].kind = "publish" /\ Loaded(r) =>
            LET to == Recipients(reqs[r].sent)
                listed == ValidRecipients(reqs[r].subscribers)
            IN Len(to) <= Len(listed) /\ to = SubSeq(listed, 1, Len(to)))
  /\ [][\A r \in Requests :
          reqs[r].kind = "publish" /\ reqs'[r] # reqs[r] =>
            /\ reqs[r].pc = "get_confirmed_subscribers" /\ reqs'[r].next > 0 =>
                 LET confirmed == {row \in subscriptions : row.status = "confirmed"}
                 IN /\ reqs[r].user_id # None /\ reqs[r].sent = <<>>
                    /\ reqs[r].subscribers = <<>>
                    /\ Len(reqs'[r].subscribers) = Cardinality(confirmed)
                    /\ \A row \in subscriptions :
                         Cardinality({i \in DOMAIN reqs'[r].subscribers :
                                        reqs'[r].subscribers[i].value = row.email})
                           = Cardinality({c \in confirmed : c.email = row.email})
            /\ reqs[r].pc # "get_confirmed_subscribers" /\ reqs'[r].kind = "publish" =>
                 reqs'[r].subscribers = reqs[r].subscribers
       ]_vars

\* A publish call that read one confirmed subscriber has sent one mail and
\* returned 200 while the store holds two confirmed subscribers with a valid
\* email: the second was confirmed after the read.
C36_Witness ==
  \E r \in Requests :
    /\ Done(r, "publish") /\ Status(r) = 200
    /\ Len(reqs[r].subscribers) = 1 /\ Len(reqs[r].sent) = 1
    /\ Cardinality({row \in subscriptions :
                      row.status = "confirmed" /\ validate_email(row.email)}) = 2

\* C37: a confirm call changes at most the status of the one subscriber its
\* token maps to.  In every step of a confirm call the token rows, the user
\* rows and the mails delivered so far are unchanged, no row is created, the
\* call has sent no email, and the subscriber rows are the rows of before
\* except possibly one: the row whose id the store maps the token of the
\* call to, which keeps its id, email and name and has the status confirmed.
C37_ConfirmChangesOneStatus ==
  [][\A r \in Requests :
       /\ reqs'[r] # reqs[r]
       /\ reqs[r].kind = "confirm" \/ reqs'[r].kind = "confirm"
       => LET changed == subscriptions \ subscriptions'
              written == subscriptions' \ subscriptions
              token == IF reqs[r].kind = "confirm" THEN reqs[r].token
                       ELSE reqs'[r].token
          IN /\ UNCHANGED <<subscription_tokens, users, mailed, nextId, nextTok>>
             /\ reqs'[r].sent = <<>>
             /\ Cardinality(changed) <= 1
             /\ Cardinality(subscriptions') = Cardinality(subscriptions)
             /\ written = {[row EXCEPT !.status = "confirmed"] : row \in changed}
             /\ \A row \in changed :
                  [subscription_token |-> token[1], subscriber_id |-> row.id]
                    \in subscription_tokens
    ]_vars

\* A confirm call has returned 200 and turned a pending subscriber into a
\* confirmed one, while another subscriber with the same email is still
\* pending and the token rows of both are in the store.
C37_Witness ==
  \E r \in Requests :
    /\ Done(r, "confirm") /\ Status(r) = 200
    /\ reqs[r].before = {"pending_confirmation"}
    /\ \E a, b \in subscriptions :
         /\ a.id = reqs[r].subscriber_id[1] /\ a.status = "confirmed"
         /\ b.id # a.id /\ b.email = a.email /\ b.status = "pending_confirmation"
         /\ \E ta, tb \in subscription_tokens :
              ta.subscriber_id = a.id /\ tb.subscriber_id = b.id
    /\ users # {}

\* C38: publish only reads the store.  No step of a publish call, whatever
\* the call returns, changes a subscriber row, a token row or a user row or
\* creates a row, and once the response is written the slot keeps nothing
\* of the request.  So every call, the first like a repeated one, that
\* returns 200 has sent its issue, with the title and content of its own
\* body, once to each confirmed subscriber with a valid email that the store
\* holds, and two calls read the same subscribers.
C38_PublishOnlyReads ==
  /\ [](\A r, q \in Requests :
          LET confirmed == {row \in subscriptions :
                              row.status = "confirmed" /\ validate_email(row.email)}
          IN /\ Done(r, "publish") /\ Status(r) = 200 =>
                  /\ Len(reqs[r].sent) = Cardinality(confirmed)
                  /\ \A row \in confirmed :
                       NewsletterMail(row.email, reqs[r].body, TRUE)
                         \in {reqs[r].sent[i] : i \in DOMAIN reqs[r].sent}
             /\ reqs[r].kind = "publish" /\ Loaded(r)
                /\ reqs[q].kind = "publish" /\ Loaded(q) =>
                  /\ Len(reqs[r].subscribers) = Len(reqs[q].subscribers)
                  /\ \A i \in DOMAIN reqs[r].subscribers :
                       \E j \in DOMAIN reqs[q].subscribers :
                         reqs[q].subscribers[j] = reqs[r].subscribers[i])
  /\ [][\A r \in Requests :
          /\ reqs'[r] # reqs[r]
          /\ reqs[r].kind = "publish" \/ reqs'[r].kind = "publish"
          => /\ UNCHANGED <<subscriptions, subscription_tokens, users,
                            nextId, nextTok, mailed>>
             /\ reqs[r].pc = "done" => reqs'[r] = Idle
       ]_vars

\* A publish call has returned 200 and has sent its issue to the confirmed
\* subscriber, and another call with the same header and the same body has
\* read the same subscriber and is about to send to it; the store is as it
\* was at the start.
C38_Witness ==
  \E r, q \in Requests :
    /\ Done(r, "publish") /\ Status(r) = 200 /\ Len(reqs[r].sent) = 1
    /\ r # q /\ reqs[q].kind = "publish" /\ reqs[q].pc = "send_email"
    /\ reqs[q].header = reqs[r].header /\ reqs[q].json = reqs[r].json
    /\ reqs[q].subscribers = reqs[r].subscribers
    /\ \E row \in subscriptions :
         row.status = "confirmed" /\ row.email = reqs[r].sent[1].to
    /\ subscription_tokens # {} /\ users # {}

============================================================================
